---------------------------- MODULE Spec2Model ----------------------------
(***************************************************************************)
(* Simple-md (src/src/main.py): the live-preview pipeline of the editor.   *)
(*                                                                         *)
(* Text is a sequence of one-character strings.  The buffer returned by    *)
(* QTextEdit.toPlainText() separates lines by "\n".                        *)
(*                                                                         *)
(* Two specifications share the variables:                                 *)
(*   Spec     the editor session: buffer, current file, debounce timer,    *)
(*            published preview (MarkdownEditor's handlers);               *)
(*   SpecMdx  one render pass over a text and a file path drawn from       *)
(*            bounded sets, stage by stage (_do_update_preview).           *)
(***************************************************************************)
EXTENDS Integers, Sequences, FiniteSets, TLC

(***************************************************************************)
(* Characters and the classes the regular expressions of main.py use.      *)
(***************************************************************************)
Upper == {"A", "B", "C", "D", "E", "F", "G", "H", "I", "J", "K", "L", "M",
          "N", "O", "P", "Q", "R", "S", "T", "U", "V", "W", "X", "Y", "Z"}

LowerOf == [c \in Upper |->
             CASE c = "A" -> "a" [] c = "B" -> "b" [] c = "C" -> "c"
               [] c = "D" -> "d" [] c = "E" -> "e" [] c = "F" -> "f"
               [] c = "G" -> "g" [] c = "H" -> "h" [] c = "I" -> "i"
               [] c = "J" -> "j" [] c = "K" -> "k" [] c = "L" -> "l"
               [] c = "M" -> "m" [] c = "N" -> "n" [] c = "O" -> "o"
               [] c = "P" -> "p" [] c = "Q" -> "q" [] c = "R" -> "r"
               [] c = "S" -> "s" [] c = "T" -> "t" [] c = "U" -> "u"
               [] c = "V" -> "v" [] c = "W" -> "w" [] c = "X" -> "x"
               [] c = "Y" -> "y" [] c = "Z" -> "z"]

Lower == {LowerOf[c] : c \in Upper}

Digit == {"0", "1", "2", "3", "4", "5", "6", "7", "8", "9"}

\* A letter outside ASCII, written by its name: \w matches it (the patterns
\* are str patterns), [A-Za-z0-9_.-] does not.
EAcute == "EACUTE"

\* \w
IsWord(c) == c \in Upper \cup Lower \cup Digit \cup {"_", EAcute}

\* [A-Za-z0-9_.-]
IsTagChar(c) == c \in Upper \cup Lower \cup Digit \cup {"_", ".", "-"}

\* \s
IsSpace(c) == c \in {" ", "\t", "\n", "\r", "\f"}

\* str.lower(), one character
LowerChar(c) == IF c \in Upper THEN LowerOf[c] ELSE c

\* str.lower()
LowerStr(s) == [i \in 1..Len(s) |-> LowerChar(s[i])]

\* The backquote character: the module's lexer admits no backquote inside a
\* string, so the character is written by its name.
Backquote == "BACKQUOTE"

Fence3 == <<Backquote, Backquote, Backquote>>
KwImport == <<"i", "m", "p", "o", "r", "t">>
KwExport == <<"e", "x", "p", "o", "r", "t">>
ExtMdx == <<".", "m", "d", "x">>
KwMermaid == <<"m", "e", "r", "m", "a", "i", "d">>

(***************************************************************************)
(* String helpers.  Positions are 1-based; Len(s) + 1 is the end.          *)
(***************************************************************************)
HasPrefixAt(s, i, p) ==
    /\ i >= 1
    /\ i + Len(p) - 1 <= Len(s)
    /\ \A k \in 1..Len(p) : s[i + k - 1] = p[k]

\* str.endswith
EndsWith(s, p) == Len(s) >= Len(p) /\ HasPrefixAt(s, Len(s) - Len(p) + 1, p)

\* The position after a greedy \s* that starts at i.
RECURSIVE SkipSpace(_, _)
SkipSpace(s, i) ==
    IF i <= Len(s) /\ IsSpace(s[i]) THEN SkipSpace(s, i + 1) ELSE i

\* The position after a greedy [A-Za-z0-9_.-]* that starts at i.
RECURSIVE SkipTagChars(_, _)
SkipTagChars(s, i) ==
    IF i <= Len(s) /\ IsTagChar(s[i]) THEN SkipTagChars(s, i + 1) ELSE i

\* \b between s[i-1] and s[i]
WordBoundary(s, i) ==
    LET before == i - 1 >= 1 /\ i - 1 <= Len(s) /\ IsWord(s[i - 1])
        after  == i >= 1 /\ i <= Len(s) /\ IsWord(s[i])
    IN  before # after

\* SubSeq with an empty result for an empty range
Slice(s, a, b) == IF a > b THEN <<>> ELSE SubSeq(s, a, b)

\* not s.strip()
IsBlank(s) == \A i \in 1..Len(s) : IsSpace(s[i])

\* str.splitlines(): the line boundaries are \n, \r, \r\n and \f; no empty
\* last line is produced for a text that ends with a boundary.
IsLineBreak(c) == c \in {"\n", "\r", "\f"}

RECURSIVE SplitFrom(_, _, _)
SplitFrom(s, i, start) ==
    IF i > Len(s)
    THEN IF start <= Len(s) THEN <<Slice(s, start, Len(s))>> ELSE <<>>
    ELSE IF IsLineBreak(s[i])
         THEN LET w == IF s[i] = "\r" /\ i + 1 <= Len(s) /\ s[i + 1] = "\n"
                       THEN 2 ELSE 1
              IN  <<Slice(s, start, i - 1)>> \o SplitFrom(s, i + w, i + w)
         ELSE SplitFrom(s, i + 1, start)

SplitLines(s) == SplitFrom(s, 1, 1)

\* '\n'.join(lines)
RECURSIVE JoinLines(_)
JoinLines(lines) ==
    IF lines = <<>> THEN <<>>
    ELSE IF Len(lines) = 1 THEN lines[1]
    ELSE lines[1] \o <<"\n">> \o JoinLines(Tail(lines))

(***************************************************************************)
(* The regular expressions of _looks_like_mdx and _mdx_to_markdown.        *)
(***************************************************************************)
\* re.match(r'^\s*(3 backquotes)', line)
FenceLine(line) == HasPrefixAt(line, SkipSpace(line, 1), Fence3)

\* A variant of the import pattern without the whitespace after the
\* keyword: \s*(import|export)
ImportAtNoSpace(s, i) ==
    LET k == SkipSpace(s, i)
    IN  HasPrefixAt(s, k, KwImport) \/ HasPrefixAt(s, k, KwExport)

\* \s*(import|export)\s matched at position i of s
ImportAt(s, i) ==
    LET k == SkipSpace(s, i)
    IN  /\ HasPrefixAt(s, k, KwImport) \/ HasPrefixAt(s, k, KwExport)
        /\ k + 6 <= Len(s)
        /\ IsSpace(s[k + 6])

\* re.match(r'^\s*(import|export)\s', line)
ImportLine(line) == ImportAt(line, 1)

\* \s*<\s*([A-Z][A-Za-z0-9_.-]*)\b matched at position i of s: the pair of
\* positions of group 1, <<0, 0>> when there is no match.  The greedy
\* identifier is given back one character at a time until \b holds.
TagAt(s, i) ==
    LET lt == SkipSpace(s, i)
    IN  IF ~(lt <= Len(s) /\ s[lt] = "<") THEN <<0, 0>>
        ELSE LET a == SkipSpace(s, lt + 1)
             IN  IF ~(a <= Len(s) /\ s[a] \in Upper) THEN <<0, 0>>
                 ELSE LET z    == SkipTagChars(s, a + 1)
                          ends == {e \in (a + 1)..z : WordBoundary(s, e)}
                      IN  IF ends = {} THEN <<0, 0>>
                          ELSE LET e == CHOOSE x \in ends :
                                            \A y \in ends : y <= x
                               IN  <<a, e - 1>>

\* re.match(r'^\s*<\s*([A-Z][A-Za-z0-9_.-]*)\b', line).group(1), <<>> for None
TagOf(line) ==
    LET g == TagAt(line, 1)
    IN  IF g = <<0, 0>> THEN <<>> ELSE SubSeq(line, g[1], g[2])

\* ^ under re.MULTILINE: the start of the text or the position after a "\n"
AtLineStart(s, i) == i = 1 \/ (i >= 2 /\ i <= Len(s) + 1 /\ s[i - 1] = "\n")

\* re.search(r'^\s*(import|export)\s', text, flags=re.MULTILINE)
SearchImport(text) ==
    \E i \in 1..Len(text) : AtLineStart(text, i) /\ ImportAt(text, i)

\* re.search(r'^\s*<\s*[A-Z][A-Za-z0-9_.-]*\b', text, flags=re.MULTILINE)
SearchTag(text) ==
    \E i \in 1..Len(text) : AtLineStart(text, i) /\ TagAt(text, i) # <<0, 0>>

\* </\s*TAG\s*>\s*$ matched at position p of line
CloseTagAt(line, p, tag) ==
    /\ HasPrefixAt(line, p, <<"<", "/">>)
    /\ LET j == SkipSpace(line, p + 2)
       IN  /\ HasPrefixAt(line, j, tag)
           /\ LET k == SkipSpace(line, j + Len(tag))
              IN  /\ k <= Len(line)
                  /\ line[k] = ">"
                  /\ SkipSpace(line, k + 1) = Len(line) + 1

\* re.search(rf'^\s*</\s*{re.escape(in_component)}\s*>\s*$', line)
ClosingLine(line, tag) == CloseTagAt(line, SkipSpace(line, 1), tag)

\* re.search(rf'</\s*{re.escape(tag)}\s*>\s*$', line)
ClosesAtEnd(line, tag) == \E p \in 1..Len(line) : CloseTagAt(line, p, tag)

\* re.search(r'/\s*>\s*$', line)
SelfCloses(line) ==
    \E p \in 1..Len(line) :
        /\ line[p] = "/"
        /\ LET k == SkipSpace(line, p + 1)
           IN  /\ k <= Len(line)
               /\ line[k] = ">"
               /\ SkipSpace(line, k + 1) = Len(line) + 1

\* The least j >= i with */} at j, 0 when there is none.
RECURSIVE CommentEnd(_, _)
CommentEnd(s, i) ==
    IF i + 2 > Len(s) THEN 0
    ELSE IF HasPrefixAt(s, i, <<"*", "/", "}">>) THEN i
    ELSE CommentEnd(s, i + 1)

\* re.sub(r'\{/\*([\s\S]*?)\*/\}', r'<!--\1-->', line), scanning from i
RECURSIVE RewriteFrom(_, _)
RewriteFrom(s, i) ==
    IF i > Len(s) THEN <<>>
    ELSE LET j == IF HasPrefixAt(s, i, <<"{", "/", "*">>)
                  THEN CommentEnd(s, i + 3) ELSE 0
         IN  IF j # 0
             THEN <<"<", "!", "-", "-">> \o Slice(s, i + 3, j - 1)
                    \o <<"-", "-", ">">> \o RewriteFrom(s, j + 3)
             ELSE <<s[i]>> \o RewriteFrom(s, i + 1)

RewriteComments(line) == RewriteFrom(line, 1)

(***************************************************************************)
(* MarkdownEditor._looks_like_mdx and MarkdownEditor._mdx_to_markdown.     *)
(* A file path is a text; NoFile is current_file = None.                   *)
(***************************************************************************)
NoFile == <<>>

\* self.current_file and str(self.current_file).lower().endswith('.mdx')
IsMdxPath(file) == file # NoFile /\ EndsWith(LowerStr(file), ExtMdx)

\* A variant of the detection that takes every path for an MDX path.
LooksLikeMdxAnyPath(text, file) ==
    \/ file # NoFile
    \/ SearchImport(text)
    \/ SearchTag(text)

LooksLikeMdx(text, file) ==
    \/ IsMdxPath(file)
    \/ SearchImport(text)
    \/ SearchTag(text)

\* The state of the line loop: in_fence, in_component (<<>> is None) and
\* out_lines.
MdxStart == [in_fence |-> FALSE, in_component |-> <<>>, out_lines |-> <<>>]

\* A variant of the iteration in which a tag line never closes its fence
\* at once.
MdxStepNeverClose(st, raw) ==
    IF FenceLine(raw)
    THEN [st EXCEPT !.in_fence = ~st.in_fence,
                    !.out_lines = Append(st.out_lines, raw)]
    ELSE IF ~st.in_fence /\ ImportLine(raw)
    THEN st
    ELSE LET line == IF st.in_fence THEN raw ELSE RewriteComments(raw)
         IN  IF st.in_component # <<>>
             THEN IF ClosingLine(line, st.in_component)
                  THEN [st EXCEPT !.out_lines = @ \o <<line, Fence3>>,
                                  !.in_component = <<>>]
                  ELSE [st EXCEPT !.out_lines = Append(@, line)]
             ELSE IF ~st.in_fence /\ TagOf(line) # <<>>
             THEN [st EXCEPT !.out_lines =
                       @ \o <<Fence3 \o <<"j", "s", "x">>, line>>,
                             !.in_component = TagOf(line)]
             ELSE [st EXCEPT !.out_lines = Append(@, line)]

\* A variant of the iteration whose import and comment rules do not look
\* at in_fence.
MdxStepFenceBlind(st, raw) ==
    IF FenceLine(raw)
    THEN [st EXCEPT !.in_fence = ~st.in_fence,
                    !.out_lines = Append(st.out_lines, raw)]
    ELSE IF ImportLine(raw)
    THEN st
    ELSE LET line == RewriteComments(raw)
         IN  IF st.in_component # <<>>
             THEN IF ClosingLine(line, st.in_component)
                  THEN [st EXCEPT !.out_lines = @ \o <<line, Fence3>>,
                                  !.in_component = <<>>]
                  ELSE [st EXCEPT !.out_lines = Append(@, line)]
             ELSE IF ~st.in_fence /\ TagOf(line) # <<>>
             THEN IF SelfCloses(line) \/ ClosesAtEnd(line, TagOf(line))
                  THEN [st EXCEPT !.out_lines =
                            @ \o <<Fence3 \o <<"j", "s", "x">>, line, Fence3>>]
                  ELSE [st EXCEPT !.out_lines =
                            @ \o <<Fence3 \o <<"j", "s", "x">>, line>>,
                                  !.in_component = TagOf(line)]
             ELSE [st EXCEPT !.out_lines = Append(@, line)]

\* One iteration of 'for line in text.splitlines()'.
MdxStep(st, raw) ==
    IF FenceLine(raw)
    THEN [st EXCEPT !.in_fence = ~st.in_fence,
                    !.out_lines = Append(st.out_lines, raw)]
    ELSE IF ~st.in_fence /\ ImportLine(raw)
    THEN st
    ELSE LET line == IF st.in_fence THEN raw ELSE RewriteComments(raw)
         IN  IF st.in_component # <<>>
             THEN IF ClosingLine(line, st.in_component)
                  THEN [st EXCEPT !.out_lines = @ \o <<line, Fence3>>,
                                  !.in_component = <<>>]
                  ELSE [st EXCEPT !.out_lines = Append(@, line)]
             ELSE IF ~st.in_fence /\ TagOf(line) # <<>>
             THEN IF SelfCloses(line) \/ ClosesAtEnd(line, TagOf(line))
                  THEN [st EXCEPT !.out_lines =
                            @ \o <<Fence3 \o <<"j", "s", "x">>, line, Fence3>>]
                  ELSE [st EXCEPT !.out_lines =
                            @ \o <<Fence3 \o <<"j", "s", "x">>, line>>,
                                  !.in_component = TagOf(line)]
             ELSE [st EXCEPT !.out_lines = Append(@, line)]

\* The loop over the first n lines.
RECURSIVE MdxFold(_, _)
MdxFold(lines, n) ==
    IF n = 0 THEN MdxStart ELSE MdxStep(MdxFold(lines, n - 1), lines[n])

\* A variant of the end of the loop that closes a fence whether or not a
\* component is open.
MdxFinishAlways(st) == Append(st.out_lines, Fence3)

\* A variant of the end of the loop without the force-close.
MdxFinishNoClose(st) == st.out_lines

\* After the loop: force-close an open component.
MdxFinish(st) ==
    IF st.in_component # <<>> THEN Append(st.out_lines, Fence3)
    ELSE st.out_lines

\* _mdx_to_markdown: <<rendered, changed>>
MdxToMarkdown(text, file) ==
    IF ~LooksLikeMdx(text, file) THEN <<text, FALSE>>
    ELSE LET lines    == SplitLines(text)
             rendered == JoinLines(MdxFinish(MdxFold(lines, Len(lines))))
         IN  <<rendered, rendered # text>>

(***************************************************************************)
(* _do_update_preview, after normalization: mermaid extraction and the     *)
(* assembled document.                                                     *)
(***************************************************************************)
\* The two literals mermaid_replacer puts around a diagram's code; neither
\* holds a backquote, so each is one element of the text.
DivOpen == "<div class=\"mermaid\">"
DivClose == "</div>"

MermaidOpen == Fence3 \o KwMermaid \o <<"\n">>

\* The least j >= i with three backquotes at j, 0 when there is none.
RECURSIVE FenceFrom(_, _)
FenceFrom(s, i) ==
    IF i + 2 > Len(s) THEN 0
    ELSE IF HasPrefixAt(s, i, Fence3) THEN i
    ELSE FenceFrom(s, i + 1)

\* re.sub(r'(3 backquotes)mermaid\n([\s\S]*?)(3 backquotes)',
\*        mermaid_replacer, md_text), scanning from i
RECURSIVE MermaidFrom(_, _)
MermaidFrom(s, i) ==
    IF i > Len(s) THEN <<>>
    ELSE LET j == IF HasPrefixAt(s, i, MermaidOpen)
                  THEN FenceFrom(s, i + Len(MermaidOpen)) ELSE 0
         IN  IF j # 0
             THEN <<DivOpen>> \o Slice(s, i + Len(MermaidOpen), j - 1)
                    \o <<DivClose>> \o MermaidFrom(s, j + 3)
             ELSE <<s[i]>> \o MermaidFrom(s, i + 1)

\* A variant of the extraction that replaces the first diagram only.
RECURSIVE MermaidFromFirstOnly(_, _)
MermaidFromFirstOnly(s, i) ==
    IF i > Len(s) THEN <<>>
    ELSE LET j == IF HasPrefixAt(s, i, MermaidOpen)
                  THEN FenceFrom(s, i + Len(MermaidOpen)) ELSE 0
         IN  IF j # 0
             THEN <<DivOpen>> \o Slice(s, i + Len(MermaidOpen), j - 1)
                    \o <<DivClose>> \o Slice(s, j + 3, Len(s))
             ELSE <<s[i]>> \o MermaidFromFirstOnly(s, i + 1)

ExtractMermaidFirstOnly(md_text) == MermaidFromFirstOnly(md_text, 1)

\* A variant of the extraction that strips each diagram's code.
RECURSIVE MermaidFromTrim(_, _)
MermaidFromTrim(s, i) ==
    IF i > Len(s) THEN <<>>
    ELSE LET j == IF HasPrefixAt(s, i, MermaidOpen)
                  THEN FenceFrom(s, i + Len(MermaidOpen)) ELSE 0
             code == Slice(s, i + Len(MermaidOpen), j - 1)
         IN  IF j # 0
             THEN <<DivOpen>>
                    \o (IF code # <<>> /\ code[Len(code)] = "\n"
                        THEN SubSeq(code, 1, Len(code) - 1) ELSE code)
                    \o <<DivClose>> \o MermaidFromTrim(s, j + 3)
             ELSE <<s[i]>> \o MermaidFromTrim(s, i + 1)

ExtractMermaidTrim(md_text) == MermaidFromTrim(md_text, 1)

ExtractMermaid(md_text) == MermaidFrom(md_text, 1)

\* markdown2.markdown, an external collaborator: the application is kept
\* as a term.
Markdown(md) == <<"markdown2", md>>

\* The fixed welcome section.
WelcomeHtml == <<"welcome">>

\* A variant of the choice that takes only the empty text for blank.
InnerHtmlEmptyOnly(md_text_mermaid) ==
    IF md_text_mermaid # <<>> THEN Markdown(md_text_mermaid)
    ELSE WelcomeHtml

\* html: the rendered Markdown, or the welcome section for a blank text.
InnerHtml(md_text_mermaid) ==
    IF ~IsBlank(md_text_mermaid) THEN Markdown(md_text_mermaid)
    ELSE WelcomeHtml

\* A variant of the banner shown on detection alone.
MdxNoteOnDetection(src, file, mdx_changed) == LooksLikeMdx(src, file)

\* mdx_note is not '': looks like MDX, and the normalization changed it.
MdxNote(src, file, mdx_changed) == LooksLikeMdx(src, file) /\ mdx_changed

\* html_full, by its two varying parts (html_head is fixed).
HtmlFull(mdx_note, html) == [mdx_note |-> mdx_note, html |-> html]

\* The document _do_update_preview passes to self.preview.setHtml.
DoUpdatePreview(src, file) ==
    LET r == MdxToMarkdown(src, file)
    IN  HtmlFull(MdxNote(src, file, r[2]), InnerHtml(ExtractMermaid(r[1])))

(***************************************************************************)
(* State.                                                                  *)
(*   text          the editor buffer, self.editor.toPlainText()            *)
(*   current_file  self.current_file                                       *)
(*   preview       the document last passed to self.preview.setHtml        *)
(*   stage         where the program is: "constructing" and "running" in   *)
(*                 Spec; the position in _do_update_preview in SpecMdx     *)
(*   md_text, mdx_changed, md_text_mermaid                                 *)
(*                 the locals of _do_update_preview (SpecMdx)              *)
(*   timer_left    self._preview_timer: Inactive, or the milliseconds      *)
(*                 left until it times out                                 *)
(* History, written by the handlers and read by no guard but the caps:     *)
(*   version       document-change events so far                           *)
(*   burst         document-change events since the last render pass       *)
(*   bursts        times a document change found the timer inactive        *)
(*   passes        render passes so far                                    *)
(*   last_pass     the last render pass: what started it, the buffer and   *)
(*                 the path it read, the events it covers                  *)
(*   armed_text    the buffer when the timer last went from inactive to    *)
(*                 active                                                  *)
(*   quiet         the milliseconds, up to the timer's interval, that have *)
(*                 passed since the latest document-change event           *)
(* The text cursor of the editor (SpecKeys):                               *)
(*   anchor, position                                                      *)
(*                 QTextCursor.anchor() and .position(), counted as Qt     *)
(*                 counts them, in UTF-16 code units                       *)
(*   before        history: the buffer, the cursor and the key of the last *)
(*                 keyPressEvent, as they were when it was called          *)
(*   typed         history: keyPressEvent calls so far                     *)
(* The highlighter (SpecHighlight):                                        *)
(*   formats       the style of every position of the block, as the        *)
(*                 setFormat calls of highlightBlock leave it              *)
(* History of the file actions (Spec, SpecFiles):                          *)
(*   last_io       the last file action: which, whether it failed, and     *)
(*                 whether a message box reported it                       *)
(* The syntax popup (SpecPopup):                                           *)
(*   popup         self.syntax_popup.isVisible(), self._popup_trigger,     *)
(*                 self._popup_filter, self._popup_filtered, the popup's   *)
(*                 currentRow() (-1 is no row; its count() is the length   *)
(*                 of filtered), and whether a handler has raised          *)
(***************************************************************************)
VARIABLES text, current_file, preview,
          stage, md_text, mdx_changed, md_text_mermaid,
          timer_left, version, burst, bursts, passes, last_pass, armed_text,
          quiet,
          anchor, position, before, typed,
          formats, last_io,
          popup

passVars == <<md_text, mdx_changed, md_text_mermaid>>

schedVars == <<timer_left, version, burst, bursts, passes, last_pass,
               armed_text, quiet>>

keyVars == <<anchor, position, before, typed>>

hlVars == <<formats>>

ioVars == <<last_io>>

popupVars == <<popup>>

vars == <<text, current_file, preview, stage, passVars, schedVars, keyVars,
          hlVars, ioVars, popupVars>>

\* What the render pass alone, and what the session, leave as they are.
mdxFrame == <<schedVars, keyVars, hlVars, ioVars, popupVars>>

sessionFrame == <<passVars, keyVars, hlVars, ioVars, popupVars>>

\* What a file action of the session leaves as it is.
ioFrame == <<passVars, keyVars, hlVars, popupVars>>

NoIo == [op |-> "none", failed |-> FALSE, reported |-> FALSE]

\* The popup as _setup_syntax_popup leaves it: hidden, without rows.
NoPopup ==
    [visible |-> FALSE, trigger |-> <<>>, filter |-> <<>>, filtered |-> <<>>,
     row |-> -1, raised |-> FALSE]

NoKey ==
    [text |-> <<>>, anchor |-> 0, position |-> 0, key |-> "", rule |-> ""]

\* self._preview_timer is not active.
Inactive == -1

\* self._preview_timer.setInterval(150)
PreviewInterval == 150

NoPass == [by |-> "none", src |-> <<>>, file |-> <<>>, n |-> 0, version |-> 0]

\* The preview surface before any setHtml.
NoPreview == [mdx_note |-> FALSE, html |-> <<>>]

(***************************************************************************)
(* SpecMdx: one render pass over every text and file path of a bounded     *)
(* family.                                                                 *)
(***************************************************************************)
\* Texts have at most MaxLines lines drawn from CoreLines, or at most
\* MaxEdgeLines lines drawn from CoreLines and EdgeLines.
MaxLines == 3
MaxEdgeLines == 2

CoreLines ==
    { <<>>,
      <<"A">>,
      Fence3,
      Fence3 \o KwMermaid,
      KwImport \o <<" ", "a">>,
      <<"<", "A", ">">>,
      <<"<", "/", "A", ">">> }

EdgeLines ==
    { <<"<", "A", "/", ">">>,
      KwImport,
      <<"<">>,
      <<"x", "<", "/", "A", ">">>,
      <<"<", "A", ">", "a", "<", "/", "A", ">">>,
      <<"<", "A", "/", ">", "x">>,
      <<"<", "A", EAcute>>,
      <<"<", "A", ">", "{", "/", "*", "c", "*", "/", "}">> }

\* The two scenarios of the specification's section 8.
FooTagLine ==
    <<"<", "F", "o", "o", " ", "p", "r", "o", "p", "=",
      "\"", "1", "\"", " ", "/", ">">>

ScenarioJsx ==
    KwImport \o <<" ", "F", "o", "o", " ", "f", "r", "o", "m", " ",
                  "'", "b", "a", "r", "'", "\n">>
      \o FooTagLine

GraphSource ==
    <<"g", "r", "a", "p", "h", " ", "T", "D", "\n">>
      \o <<" ", " ", "A", " ", "-", "-", ">", " ", "B">>

ScenarioMermaid ==
    Fence3 \o KwMermaid \o <<"\n">> \o GraphSource \o <<"\n">> \o Fence3

\* A fenced block opened by four backquotes that shows a mermaid block.
ScenarioNested ==
    <<Backquote>> \o Fence3 \o <<"m", "d", "\n">>
      \o Fence3 \o KwMermaid \o <<"\n", "A", "\n">>
      \o Fence3 \o <<"\n", Backquote>> \o Fence3

\* Two diagrams, one after the other.
ScenarioTwoDiagrams ==
    Fence3 \o KwMermaid \o <<"\n", "A", "\n">> \o Fence3 \o <<"\n">>
      \o Fence3 \o KwMermaid \o <<"\n", "B", "\n">> \o Fence3

SeqsUpTo(S, n) == UNION {[1..k -> S] : k \in 0..n}

Texts ==
    {JoinLines(ls) : ls \in SeqsUpTo(CoreLines, MaxLines)
                            \cup SeqsUpTo(CoreLines \cup EdgeLines, MaxEdgeLines)}
      \cup {ScenarioJsx, ScenarioMermaid, ScenarioNested,
            ScenarioTwoDiagrams}

Files == { NoFile,
           <<"a", ".", "m", "d">>,
           <<"A", ".", "M", "D", "X">> }

InitMdx ==
    /\ text \in Texts
    /\ current_file \in Files
    /\ preview = NoPreview
    /\ stage = "start"
    /\ md_text = <<>>
    /\ mdx_changed = FALSE
    /\ md_text_mermaid = <<>>
    /\ timer_left = Inactive
    /\ version = 0
    /\ burst = 0
    /\ bursts = 0
    /\ passes = 0
    /\ last_pass = NoPass
    /\ armed_text = <<>>
    /\ quiet = 0
    /\ anchor = 0
    /\ position = 0
    /\ before = NoKey
    /\ typed = 0
    /\ formats = <<>>
    /\ last_io = NoIo
    /\ popup = NoPopup

\* md_text = self.editor.toPlainText()
\* md_text, mdx_changed = self._mdx_to_markdown(md_text)
NormalizePass ==
    /\ stage = "start"
    /\ LET r == MdxToMarkdown(text, current_file)
       IN  /\ md_text' = r[1]
           /\ mdx_changed' = r[2]
    /\ stage' = "normalized"
    /\ UNCHANGED <<text, current_file, preview, md_text_mermaid, mdxFrame>>

\* md_text_mermaid = re.sub(...); html; mdx_note; self.preview.setHtml
PublishPass ==
    /\ stage = "normalized"
    /\ md_text_mermaid' = ExtractMermaid(md_text)
    /\ preview' = HtmlFull(MdxNote(text, current_file, mdx_changed),
                           InnerHtml(ExtractMermaid(md_text)))
    /\ stage' = "published"
    /\ UNCHANGED <<text, current_file, md_text, mdx_changed, mdxFrame>>

NextMdx == NormalizePass \/ PublishPass

SpecMdx == InitMdx /\ [][NextMdx]_vars

(***************************************************************************)
(* Spec: the editor session.  Every handler runs to completion on the one  *)
(* UI thread, so each is one action.                                       *)
(***************************************************************************)
\* The granularity of time, the document-change events of a session and
\* the length to which the buffer is typed.
TickMs == 50
MaxEdits == 3
MaxBuf == 2

\* Keys AutoPairTextEdit.keyPressEvent passes on to QTextEdit.
Keys == {"A", "\n"}

PathMd == <<"a", ".", "m", "d">>
PathMdxUpper == <<"A", ".", "M", "D", "X">>

\* Files on disk that open_file can load: path and content.
DiskFiles ==
    { [path |-> PathMd, content |-> <<"A", "\n">>],
      [path |-> PathMdxUpper, content |-> <<"<", "A", "/", ">">>] }

\* What the save dialog returns: the name typed and the selected filter.
SaveNames == {<<"a">>, PathMdxUpper}
SaveFilters ==
    { <<"M", "a", "r", "k", "d", "o", "w", "n", " ", "F", "i", "l", "e", "s",
        " ", "(", "*", ".", "m", "d", ")">>,
      <<"M", "D", "X", " ", "F", "i", "l", "e", "s", " ", "(", "*", ".", "m",
        "d", "x", ")">> }

\* Path(file_path).suffix is not empty: a dot after the first character of
\* the name.
HasSuffix(file_path) == \E i \in 2..Len(file_path) : file_path[i] = "."

\* _coerce_save_extension
CoerceSaveExtension(file_path, selected_filter) ==
    IF HasSuffix(file_path) THEN file_path
    ELSE IF \E i \in 1..Len(selected_filter) :
                HasPrefixAt(LowerStr(selected_filter), i, ExtMdx)
         THEN file_path \o ExtMdx
         ELSE file_path \o <<".", "m", "d">>

Init ==
    /\ text = <<>>
    /\ current_file = NoFile
    /\ preview = NoPreview
    /\ stage = "constructing"
    /\ md_text = <<>>
    /\ mdx_changed = FALSE
    /\ md_text_mermaid = <<>>
    /\ timer_left = Inactive
    /\ version = 0
    /\ burst = 0
    /\ bursts = 0
    /\ passes = 0
    /\ last_pass = NoPass
    /\ armed_text = <<>>
    /\ quiet = 0
    /\ anchor = 0
    /\ position = 0
    /\ before = NoKey
    /\ typed = 0
    /\ formats = <<>>
    /\ last_io = NoIo
    /\ popup = NoPopup

\* A variant of what a render pass reads: the buffer as it was when the
\* timer was armed.
RenderSourceAtArm == [src |-> armed_text, file |-> current_file]

\* What a render pass reads: self.editor.toPlainText() and, in
\* _looks_like_mdx, self.current_file.
RenderSource == [src |-> text, file |-> current_file]

\* _do_update_preview, started by the named caller.
RenderPass(by) ==
    /\ preview' = DoUpdatePreview(RenderSource.src, RenderSource.file)
    /\ last_pass' = [by |-> by, src |-> RenderSource.src,
                     file |-> RenderSource.file, n |-> burst,
                     version |-> version]
    /\ passes' = passes + 1
    /\ burst' = 0

\* A variant of update_preview that leaves a running timer to run on.
UpdatePreviewNoRestart ==
    timer_left' = IF timer_left = Inactive THEN PreviewInterval ELSE timer_left

\* A variant of update_preview that starts the timer only for a buffer that
\* is not empty.
UpdatePreviewNonEmpty ==
    timer_left' = IF text' # <<>> THEN PreviewInterval ELSE timer_left

\* update_preview: self._preview_timer.start() starts the timer, or starts
\* it again, with the full interval.
UpdatePreview == timer_left' = PreviewInterval

\* The buffer is written and textChanged is emitted; update_preview is
\* connected to it.
TextChanged(new_text) ==
    /\ version < MaxEdits
    /\ text' = new_text
    /\ version' = version + 1
    /\ burst' = burst + 1
    /\ bursts' = IF timer_left = Inactive THEN bursts + 1 ELSE bursts
    /\ armed_text' = IF timer_left = Inactive THEN new_text ELSE armed_text
    /\ quiet' = 0
    /\ UpdatePreview
    /\ UNCHANGED <<preview, passes, last_pass>>

\* A variant of the construction whose initial render goes through the
\* timer.
SetupUiDebounced ==
    /\ stage = "constructing"
    /\ stage' = "running"
    /\ UpdatePreview
    /\ UNCHANGED <<text, current_file, preview, sessionFrame, version, burst,
                   bursts, passes, last_pass, armed_text, quiet>>

\* __init__ and _setup_ui: textChanged is connected, and the initial render
\* is a direct call of _do_update_preview.
SetupUi ==
    /\ stage = "constructing"
    /\ stage' = "running"
    /\ RenderPass("direct")
    /\ UNCHANGED <<text, current_file, sessionFrame, timer_left, version, bursts,
                   armed_text, quiet>>

\* keyPressEvent of a key that is passed on: the character is inserted at
\* the cursor, here the end of the buffer.
KeyPress(c) ==
    /\ stage = "running"
    /\ Len(text) < MaxBuf
    /\ TextChanged(Append(text, c))
    /\ UNCHANGED <<current_file, stage, sessionFrame>>

\* What a file operation leaves behind: done, or failed with the message
\* box of its except clause shown, or failed with nothing shown.
Succeeded(op) == [op |-> op, failed |-> FALSE, reported |-> FALSE]
Reported(op) == [op |-> op, failed |-> TRUE, reported |-> TRUE]
Silent(op) == [op |-> op, failed |-> TRUE, reported |-> FALSE]

\* new_file
NewFile ==
    /\ stage = "running"
    /\ TextChanged(<<>>)
    /\ current_file' = NoFile
    /\ UNCHANGED <<stage, sessionFrame>>

\* open_file, dropEvent and _load_file, the file read
LoadFile(f) ==
    /\ stage = "running"
    /\ TextChanged(f.content)
    /\ current_file' = f.path
    /\ last_io' = Succeeded("load")
    /\ UNCHANGED <<stage, ioFrame>>

\* save_file_as, the file written
SaveFileAs(name, filter) ==
    /\ stage = "running"
    /\ current_file' = CoerceSaveExtension(name, filter)
    /\ last_io' = Succeeded("save_as")
    /\ UNCHANGED <<text, preview, stage, ioFrame, schedVars>>

\* A handler that ends without a change to the editor.
NoEffect(io) ==
    /\ stage = "running"
    /\ last_io' = io
    /\ UNCHANGED <<text, current_file, preview, stage, ioFrame, schedVars>>

\* open_file, dropEvent and _load_file, open() or f.read() raising: the
\* call of setPlainText is not reached.
LoadFileFails == NoEffect(Reported("load"))

\* save_file_as, _coerce_save_extension, open() or f.write() raising.
SaveFileAsFails == NoEffect(Reported("save_as"))

\* save_file: the current file written, or the write raising, or
\* save_file_as when there is no current file.
SaveFile ==
    \/ /\ current_file # NoFile
       /\ NoEffect(Succeeded("save"))
    \/ /\ current_file # NoFile
       /\ NoEffect(Reported("save"))
    \/ /\ current_file = NoFile
       /\ \E name \in SaveNames, filter \in SaveFilters :
              SaveFileAs(name, filter)
    \/ /\ current_file = NoFile
       /\ SaveFileAsFails

\* export_markdown
ExportMarkdown ==
    \/ NoEffect(Succeeded("export_markdown"))
    \/ NoEffect(Reported("export_markdown"))

\* export_html
ExportHtml ==
    \/ NoEffect(Succeeded("export_html"))
    \/ NoEffect(Reported("export_html"))

\* export_pdf: the file printed; or the import of QtPrintSupport raising
\* ImportError; or the printer unable to write the file, where
\* QTextDocument.print returns without printing and raises nothing, so
\* neither except clause runs.
ExportPdf ==
    \/ NoEffect(Succeeded("export_pdf"))
    \/ NoEffect(Reported("export_pdf"))
    \/ NoEffect(Silent("export_pdf"))

\* Time passes while the timer runs.
Tick ==
    /\ stage = "running"
    /\ timer_left > 0
    /\ timer_left' = IF timer_left > TickMs THEN timer_left - TickMs ELSE 0
    /\ quiet' = LET now == quiet + (IF timer_left > TickMs THEN TickMs
                                     ELSE timer_left)
                 IN  IF now > PreviewInterval THEN PreviewInterval ELSE now
    /\ UNCHANGED <<text, current_file, preview, stage, sessionFrame, version,
                   burst, bursts, passes, last_pass, armed_text>>

\* A variant of the timeout for a timer that is not single-shot.
TimerFireRepeating ==
    /\ stage = "running"
    /\ timer_left = 0
    /\ timer_left' = PreviewInterval
    /\ RenderPass("timer")
    /\ UNCHANGED <<text, current_file, stage, sessionFrame, version, bursts,
                   armed_text, quiet>>

\* The single-shot timer times out: it is inactive, and its timeout signal
\* calls _do_update_preview.
TimerFire ==
    /\ stage = "running"
    /\ timer_left = 0
    /\ timer_left' = Inactive
    /\ RenderPass("timer")
    /\ UNCHANGED <<text, current_file, stage, sessionFrame, version, bursts,
                   armed_text, quiet>>

Next ==
    \/ SetupUi
    \/ \E c \in Keys : KeyPress(c)
    \/ NewFile
    \/ \E f \in DiskFiles : LoadFile(f)
    \/ \E name \in SaveNames, filter \in SaveFilters : SaveFileAs(name, filter)
    \/ Tick
    \/ TimerFire

Spec == Init /\ [][Next]_vars

\* The file menu: a session of edits and file operations in which every
\* read and every write can fail.  No time passes: the timer that the
\* edits arm does not come to its timeout.
NextFiles ==
    \/ SetupUi
    \/ \E c \in Keys : KeyPress(c)
    \/ NewFile
    \/ \E f \in DiskFiles : LoadFile(f)
    \/ LoadFileFails
    \/ \E name \in SaveNames, filter \in SaveFilters : SaveFileAs(name, filter)
    \/ SaveFileAsFails
    \/ SaveFile
    \/ ExportMarkdown
    \/ ExportHtml
    \/ ExportPdf

SpecFiles == Init /\ [][NextFiles]_vars

(***************************************************************************)
(* AutoPairTextEdit.keyPressEvent.  The buffer is the sequence of its      *)
(* characters, as self.toPlainText() and block.text() give it to Python.   *)
(* Qt counts cursor positions in UTF-16 code units: a character outside    *)
(* the Basic Multilingual Plane is one element of the Python string and    *)
(* two positions of the cursor.                                            *)
(***************************************************************************)
\* A character outside the Basic Multilingual Plane.
Emoji == "EMOJI"

Width(c) == IF c = Emoji THEN 2 ELSE 1

RECURSIVE QtLen(_)
QtLen(s) == IF s = <<>> THEN 0 ELSE Width(Head(s)) + QtLen(Tail(s))

\* The number of characters of s that lie within its first p positions.
RECURSIVE CpOf(_, _)
CpOf(s, p) ==
    IF s = <<>> \/ Width(Head(s)) > p THEN 0
    ELSE 1 + CpOf(Tail(s), p - Width(Head(s)))

\* The characters of s between the positions a and b.
QtSlice(s, a, b) == Slice(s, CpOf(s, a) + 1, CpOf(s, b))

\* Python's s[a:b].
PyIndex(s, i) ==
    IF i < 0 THEN (IF i + Len(s) < 0 THEN 0 ELSE i + Len(s))
    ELSE IF i > Len(s) THEN Len(s) ELSE i

PySlice(s, a, b) == Slice(s, PyIndex(s, a) + 1, PyIndex(s, b))

\* The text cursor on its document.
Doc(t, a, p) == [text |-> t, anchor |-> a, position |-> p]

SelStart(d) == IF d.anchor < d.position THEN d.anchor ELSE d.position

SelEnd(d) == IF d.anchor < d.position THEN d.position ELSE d.anchor

\* cursor.hasSelection()
HasSelection(d) == d.anchor # d.position

\* cursor.selectedText(); its paragraph separators become line breaks
\* again when insertText puts the text back.
SelectedText(d) == QtSlice(d.text, SelStart(d), SelEnd(d))

\* cursor.insertText(t): the selection is replaced; the cursor ends after t.
InsertText(d, t) ==
    LET p == SelStart(d) + QtLen(t)
    IN  Doc(QtSlice(d.text, 0, SelStart(d)) \o t
              \o QtSlice(d.text, SelEnd(d), QtLen(d.text)), p, p)

\* cursor.deletePreviousChar(): the selection if there is one, else the
\* character before the cursor.
DeletePreviousChar(d) ==
    IF HasSelection(d) THEN InsertText(d, <<>>)
    ELSE LET k == CpOf(d.text, d.position)
         IN  IF k = 0 THEN d
             ELSE LET p == d.position - Width(d.text[k])
                  IN  Doc(SubSeq(d.text, 1, k - 1)
                            \o SubSeq(d.text, k + 1, Len(d.text)), p, p)

\* cursor.movePosition(Left)
MoveLeft(d) ==
    LET k == CpOf(d.text, d.position)
        p == IF k = 0 THEN d.position ELSE d.position - Width(d.text[k])
    IN  Doc(d.text, p, p)

\* cursor.setPosition(n); a position outside the document is refused.
SetPosition(d, n) ==
    IF n < 0 \/ n > QtLen(d.text) THEN d ELSE Doc(d.text, n, n)

\* The index of the first character of the line of character index k + 1.
RECURSIVE LineStart(_, _)
LineStart(s, k) ==
    IF k = 0 \/ s[k] = "\n" THEN k ELSE LineStart(s, k - 1)

RECURSIVE LineEnd(_, _)
LineEnd(s, k) ==
    IF k >= Len(s) \/ s[k + 1] = "\n" THEN k ELSE LineEnd(s, k + 1)

\* A variant that takes the whole text of the cursor's block.
BlockTextWhole(d) ==
    LET k == CpOf(d.text, d.position)
    IN  Slice(d.text, LineStart(d.text, k) + 1, LineEnd(d.text, k))

\* block.text()[:cursor.positionInBlock()]
BlockTextBefore(d) ==
    LET k     == CpOf(d.text, d.position)
        a     == LineStart(d.text, k)
        block == Slice(d.text, a + 1, LineEnd(d.text, k))
    IN  PySlice(block, 0, d.position - QtLen(SubSeq(d.text, 1, a)))

\* cursor.movePosition(Up), then cursor.movePosition(EndOfLine)
MoveUpEndOfLine(d) ==
    LET k == CpOf(d.text, d.position)
        a == LineStart(d.text, k)
        e == IF a = 0 THEN LineEnd(d.text, k) ELSE a - 1
        p == QtLen(SubSeq(d.text, 1, e))
    IN  Doc(d.text, p, p)

\* AutoPairTextEdit.pairs
pairs ==
    [c \in {"(", "[", "{", "\"", "'", Backquote} |->
        CASE c = "(" -> ")"
          [] c = "[" -> "]"
          [] c = "{" -> "}"
          [] OTHER   -> c]

Done(d, rule) ==
    [text |-> d.text, anchor |-> d.anchor, position |-> d.position,
     rule |-> rule]

\* The fenced-block rule of a backquote.
MermaidBlock(d) ==
    LET selected == SelectedText(d)
        ins == InsertText(d, Fence3 \o KwMermaid \o <<"\n">> \o selected
                               \o <<"\n">> \o Fence3)
    IN  IF selected = <<>> THEN MoveUpEndOfLine(ins) ELSE ins

\* The math rule of a dollar sign typed after a dollar sign.
MathSpan(d) ==
    LET del      == DeletePreviousChar(d)
        selected == SelectedText(del)
    IN  IF selected # <<>>
        THEN LET ins == InsertText(del, <<"$", "$">> \o selected
                                          \o <<"$", "$">>)
             IN  SetPosition(ins, ins.position - Len(selected) - 2)
        ELSE MoveLeft(MoveLeft(InsertText(del,
                                   <<"$", "$", " ", " ", "$", "$">>)))

\* The standard pairs, with a selection.
PairWrap(d, key) ==
    LET selected == SelectedText(d)
        ins      == InsertText(d, <<key>> \o selected \o <<pairs[key]>>)
    IN  SetPosition(ins, ins.position - Len(selected) - 1)

\* A variant of keyPressEvent that does not look at the character after
\* the cursor.
KeyPressEventAlwaysPair(d, key) ==
    IF key = Backquote /\ IsBlank(BlockTextBefore(d))
    THEN Done(MermaidBlock(d), "mermaid")
    ELSE IF key = "$"
            /\ PySlice(d.text, d.position - 1, d.position) = <<"$">>
    THEN Done(MathSpan(d), "math")
    ELSE IF key \in DOMAIN pairs /\ HasSelection(d)
    THEN Done(PairWrap(d, key), "wrap")
    ELSE IF key \in DOMAIN pairs
    THEN Done(MoveLeft(InsertText(d, <<key, pairs[key]>>)), "pair")
    ELSE Done(InsertText(d, <<key>>), "super")

\* keyPressEvent: the document afterwards, and the rule that handled the key.
KeyPressEvent(d, key) ==
    IF key = Backquote /\ IsBlank(BlockTextBefore(d))
    THEN Done(MermaidBlock(d), "mermaid")
    ELSE IF key = "$"
            /\ PySlice(d.text, d.position - 1, d.position) = <<"$">>
    THEN Done(MathSpan(d), "math")
    ELSE IF key \in DOMAIN pairs /\ HasSelection(d)
    THEN Done(PairWrap(d, key), "wrap")
    ELSE IF key \in DOMAIN pairs
            /\ PySlice(d.text, d.position, d.position + 1) # <<pairs[key]>>
    THEN Done(MoveLeft(InsertText(d, <<key, pairs[key]>>)), "pair")
    ELSE Done(InsertText(d, <<key>>), "super")

(***************************************************************************)
(* SpecKeys: keys typed into a buffer with a cursor.                       *)
(***************************************************************************)
\* The length of the buffer at the start and the keys typed into it.
MaxKeyLen == 2
MaxKeys == 2

KeyChars == {"a", ")", "$", " ", "\n", Emoji}

TypedKeys == {"(", "$", Backquote, "a"}

KeyTexts == SeqsUpTo(KeyChars, MaxKeyLen)

\* The positions a cursor can take in s.
ValidPos(s) == {QtLen(SubSeq(s, 1, k)) : k \in 0..Len(s)}

InitKeys ==
    /\ text \in KeyTexts
    /\ anchor \in ValidPos(text)
    /\ position \in ValidPos(text)
    /\ before = NoKey
    /\ typed = 0
    /\ formats = <<>>
    /\ last_io = NoIo
    /\ popup = NoPopup
    /\ current_file = NoFile
    /\ preview = NoPreview
    /\ stage = "keys"
    /\ md_text = <<>>
    /\ mdx_changed = FALSE
    /\ md_text_mermaid = <<>>
    /\ timer_left = Inactive
    /\ version = 0
    /\ burst = 0
    /\ bursts = 0
    /\ passes = 0
    /\ last_pass = NoPass
    /\ armed_text = <<>>
    /\ quiet = 0

\* One call of keyPressEvent.
TypeKey(key) ==
    /\ typed < MaxKeys
    /\ LET r == KeyPressEvent(Doc(text, anchor, position), key)
       IN  /\ text' = r.text
           /\ anchor' = r.anchor
           /\ position' = r.position
           /\ before' = [text |-> text, anchor |-> anchor,
                         position |-> position, key |-> key,
                         rule |-> r.rule]
    /\ typed' = typed + 1
    /\ UNCHANGED <<current_file, preview, stage, passVars, schedVars, hlVars,
                   ioVars, popupVars>>

NextKeys == \E key \in TypedKeys : TypeKey(key)

SpecKeys == InitKeys /\ [][NextKeys]_vars

(***************************************************************************)
(* MarkdownHighlighter.  A match is the pair of its first index and the    *)
(* index after its last, both counted in characters from 1.                *)
(***************************************************************************)
\* The first index at or after i whose character is in excl, or Len(s) + 1.
RECURSIVE SkipNot(_, _, _)
SkipNot(s, i, excl) ==
    IF i <= Len(s) /\ s[i] \notin excl THEN SkipNot(s, i + 1, excl) ELSE i

\* The first index at or after i whose character is not in set.
RECURSIVE SkipIn(_, _, _)
SkipIn(s, i, set) ==
    IF i <= Len(s) /\ s[i] \in set THEN SkipIn(s, i + 1, set) ELSE i

\* open, at least min characters outside excl, close: the index after the
\* match at i, 0 when there is none.  close begins with a character of
\* excl, so the run of characters is the longest one.
Delim(s, i, open, excl, close, min) ==
    IF ~HasPrefixAt(s, i, open) THEN 0
    ELSE LET b == i + Len(open)
             r == SkipNot(s, b, excl)
         IN  IF r - b >= min /\ HasPrefixAt(s, r, close)
             THEN r + Len(close) ELSE 0

\* \[ ... \]\( ... \) from i, the first part of at least min characters.
Bracketed(s, i, min) ==
    LET e == Delim(s, i, <<"[">>, {"]"}, <<"]">>, min)
    IN  IF e = 0 THEN 0 ELSE Delim(s, e, <<"(">>, {")"}, <<")">>, 1)

\* self.rules: the patterns in the order of the table, each with its format.
Rules ==
    << [pat |-> "heading",       style |-> "heading"],
       [pat |-> "bold_star",     style |-> "bold"],
       [pat |-> "bold_under",    style |-> "bold"],
       [pat |-> "italic_star",   style |-> "italic"],
       [pat |-> "italic_under",  style |-> "italic"],
       [pat |-> "code",          style |-> "code"],
       [pat |-> "blockquote",    style |-> "blockquote"],
       [pat |-> "listitem",      style |-> "listitem"],
       [pat |-> "link",          style |-> "link"],
       [pat |-> "image",         style |-> "image"],
       [pat |-> "strikethrough", style |-> "strikethrough"],
       [pat |-> "hr",            style |-> "hr"],
       [pat |-> "footnote",      style |-> "footnote"],
       [pat |-> "taskbox",       style |-> "taskbox"],
       [pat |-> "highlight",     style |-> "highlight"] >>

\* ^(#{1,6})\s.*
HeadingAt(s, i) ==
    LET n == SkipIn(s, 1, {"#"}) - 1
    IN  IF i = 1 /\ n >= 1 /\ n <= 6 /\ n + 1 <= Len(s) /\ IsSpace(s[n + 1])
        THEN Len(s) + 1 ELSE 0

\* ^(\s*[-+*]|\s*\d+\.)\s
ListItemAt(s, i) ==
    LET k == SkipSpace(s, 1)
        d == SkipIn(s, k, Digit)
    IN  IF i # 1 THEN 0
        ELSE IF k + 1 <= Len(s) /\ s[k] \in {"-", "+", "*"}
                /\ IsSpace(s[k + 1])
        THEN k + 2
        ELSE IF d > k /\ d + 1 <= Len(s) /\ s[d] = "." /\ IsSpace(s[d + 1])
        THEN d + 2
        ELSE 0

\* \[\^.+\]:.*
FootnoteAt(s, i) ==
    IF /\ HasPrefixAt(s, i, <<"[", "^">>)
       /\ \E j \in (i + 3)..Len(s) : HasPrefixAt(s, j, <<"]", ":">>)
    THEN Len(s) + 1 ELSE 0

\* - \[[ xX]\] and a space
TaskBoxAt(s, i) ==
    IF /\ HasPrefixAt(s, i, <<"-", " ", "[">>)
       /\ i + 3 <= Len(s) /\ s[i + 3] \in {" ", "x", "X"}
       /\ HasPrefixAt(s, i + 4, <<"]", " ">>)
    THEN i + 6 ELSE 0

\* The index after the match of the pattern at i, 0 when it does not match
\* there.
MatchAt(pat, s, i) ==
    CASE pat = "heading"       -> HeadingAt(s, i)
      [] pat = "bold_star"     ->
            Delim(s, i, <<"*", "*">>, {"*"}, <<"*", "*">>, 1)
      [] pat = "bold_under"    ->
            Delim(s, i, <<"_", "_">>, {"_"}, <<"_", "_">>, 1)
      [] pat = "italic_star"   -> Delim(s, i, <<"*">>, {"*"}, <<"*">>, 1)
      [] pat = "italic_under"  -> Delim(s, i, <<"_">>, {"_"}, <<"_">>, 1)
      [] pat = "code"          ->
            Delim(s, i, <<Backquote>>, {Backquote}, <<Backquote>>, 1)
      [] pat = "blockquote"    ->
            IF i = 1 /\ HasPrefixAt(s, 1, <<">">>) THEN Len(s) + 1 ELSE 0
      [] pat = "listitem"      -> ListItemAt(s, i)
      [] pat = "link"          -> Bracketed(s, i, 1)
      [] pat = "image"         ->
            IF HasPrefixAt(s, i, <<"!">>) THEN Bracketed(s, i + 1, 0) ELSE 0
      [] pat = "strikethrough" ->
            Delim(s, i, <<"~", "~">>, {"~"}, <<"~", "~">>, 1)
      [] pat = "hr"            ->
            IF i = 1 /\ Len(s) >= 3 /\ SkipIn(s, 1, {"-"}) = Len(s) + 1
            THEN Len(s) + 1 ELSE 0
      [] pat = "footnote"      -> FootnoteAt(s, i)
      [] pat = "taskbox"       -> TaskBoxAt(s, i)
      [] pat = "highlight"     ->
            Delim(s, i, <<"=", "=">>, {"="}, <<"=", "=">>, 1)

\* re.finditer(pattern, text): the matches from i on, left to right, none
\* overlapping another.
RECURSIVE FindIter(_, _, _)
FindIter(pat, s, i) ==
    IF i > Len(s) THEN <<>>
    ELSE LET e == MatchAt(pat, s, i)
         IN  IF e # 0 THEN <<<<i, e>>>> \o FindIter(pat, s, e)
             ELSE FindIter(pat, s, i + 1)

\* self.setFormat(start, count, fmt): the format replaces what the
\* positions start .. start + count - 1 of the block had; Qt counts them
\* from 0 in UTF-16 code units.
SetFormat(fm, start, count, style) ==
    [q \in 1..Len(fm) |->
        IF start <= q - 1 /\ q - 1 < start + count THEN style ELSE fm[q]]

\* The inner loop of highlightBlock: match.start() and match.end() count
\* the characters of the Python string from 0.
RECURSIVE FormatMatches(_, _, _, _)
FormatMatches(fm, ms, k, style) ==
    IF k > Len(ms) THEN fm
    ELSE FormatMatches(
             SetFormat(fm, ms[k][1] - 1, ms[k][2] - ms[k][1], style),
             ms, k + 1, style)

\* The outer loop, from rule r on.
RECURSIVE FormatRules(_, _, _)
FormatRules(fm, s, r) ==
    IF r > Len(Rules) THEN fm
    ELSE FormatRules(
             FormatMatches(fm, FindIter(Rules[r].pat, s, 1), 1,
                           Rules[r].style),
             s, r + 1)

\* highlightBlock(text), from a block without formats.
HighlightBlock(s) == FormatRules([q \in 1..QtLen(s) |-> "none"], s, 1)

(***************************************************************************)
(* One block of the editor under the highlighter: the line starts as one   *)
(* of the line openings below, the user types pieces of inline markup at   *)
(* its end, and Qt calls highlightBlock on the block after every change.   *)
(***************************************************************************)
MaxHlTokens == 3

HlPrefixes ==
    { <<>>,
      <<"#", " ">>,
      <<">", " ">>,
      <<"1", ".", " ">>,
      <<"-", " ", "[", " ", "]", " ">>,
      <<"[", "^", "a", "]", ":", " ">>,
      <<"-", "-", "-">> }

LinkToken == <<"[", "a", "]", "(", "b", ")">>

HlTokens ==
    { <<"*", "*">>, <<"*">>, <<"_", "_">>, <<Backquote>>, <<"a">>,
      <<Emoji>>, LinkToken, <<"!">>, <<"=", "=">>, <<"~", "~">> }

\* A bolded link.
BoldLink == <<"*", "*">> \o LinkToken \o <<"*", "*">>

InitHighlight ==
    /\ text \in HlPrefixes
    /\ formats = HighlightBlock(text)
    /\ typed = 0
    /\ anchor = 0
    /\ position = 0
    /\ before = NoKey
    /\ last_io = NoIo
    /\ popup = NoPopup
    /\ current_file = NoFile
    /\ preview = NoPreview
    /\ stage = "highlight"
    /\ md_text = <<>>
    /\ mdx_changed = FALSE
    /\ md_text_mermaid = <<>>
    /\ timer_left = Inactive
    /\ version = 0
    /\ burst = 0
    /\ bursts = 0
    /\ passes = 0
    /\ last_pass = NoPass
    /\ armed_text = <<>>
    /\ quiet = 0

\* The block changes and is highlighted again.
Rehighlight(t) ==
    /\ typed < MaxHlTokens
    /\ text' = text \o t
    /\ formats' = HighlightBlock(text')
    /\ typed' = typed + 1
    /\ UNCHANGED <<current_file, preview, stage, passVars, schedVars, anchor,
                   position, before, ioVars, popupVars>>

NextHighlight == \E t \in HlTokens : Rehighlight(t)

SpecHighlight == InitHighlight /\ [][NextHighlight]_vars

(***************************************************************************)
(* The syntax popup: _setup_syntax_popup, show_syntax_popup,               *)
(* handle_editor_keypress and insert_selected_syntax.                      *)
(***************************************************************************)
syntax_items ==
    << [label  |-> <<"H", "e", "a", "d", "i", "n", "g", " ", "1">>,
        syntax |-> <<"#", " ">>],
       [label  |-> <<"H", "e", "a", "d", "i", "n", "g", " ", "2">>,
        syntax |-> <<"#", "#", " ">>],
       [label  |-> <<"H", "e", "a", "d", "i", "n", "g", " ", "3">>,
        syntax |-> <<"#", "#", "#", " ">>],
       [label  |-> <<"H", "e", "a", "d", "i", "n", "g", " ", "4">>,
        syntax |-> <<"#", "#", "#", "#", " ">>],
       [label  |-> <<"H", "e", "a", "d", "i", "n", "g", " ", "5">>,
        syntax |-> <<"#", "#", "#", "#", "#", " ">>],
       [label  |-> <<"H", "e", "a", "d", "i", "n", "g", " ", "6">>,
        syntax |-> <<"#", "#", "#", "#", "#", "#", " ">>],
       [label  |-> <<"B", "o", "l", "d">>,
        syntax |-> <<"*", "*", "b", "o", "l", "d", " ", "t", "e", "x", "t", "*", "*">>],
       [label  |-> <<"I", "t", "a", "l", "i", "c">>,
        syntax |-> <<"*", "i", "t", "a", "l", "i", "c", " ", "t", "e", "x", "t", "*">>],
       [label  |-> <<"L", "i", "n", "k">>,
        syntax |-> <<"[", "t", "e", "x", "t", "]", "(", "u", "r", "l", ")">>],
       [label  |-> <<"I", "m", "a", "g", "e">>,
        syntax |-> <<"!", "[", "a", "l", "t", " ", "t", "e", "x", "t", "]", "(", "i", "m", "a", "g", "e", "-", "u", "r", "l", ")">>],
       [label  |-> <<"U", "n", "o", "r", "d", "e", "r", "e", "d", " ", "L", "i", "s", "t">>,
        syntax |-> <<"*", " ", "i", "t", "e", "m">>],
       [label  |-> <<"O", "r", "d", "e", "r", "e", "d", " ", "L", "i", "s", "t">>,
        syntax |-> <<"1", ".", " ", "i", "t", "e", "m">>],
       [label  |-> <<"C", "o", "d", "e", " ", "B", "l", "o", "c", "k">>,
        syntax |-> <<Backquote, Backquote, Backquote, "\n", "c", "o", "d", "e", "\n", Backquote, Backquote, Backquote>>],
       [label  |-> <<"B", "l", "o", "c", "k", "q", "u", "o", "t", "e">>,
        syntax |-> <<">", " ", "q", "u", "o", "t", "e">>] >>

wikilink_items ==
    << [label  |-> <<"H", "o", "m", "e">>,
        syntax |-> <<"[", "[", "H", "o", "m", "e", "]", "]">>],
       [label  |-> <<"A", "b", "o", "u", "t">>,
        syntax |-> <<"[", "[", "A", "b", "o", "u", "t", "]", "]">>],
       [label  |-> <<"R", "e", "f", "e", "r", "e", "n", "c", "e">>,
        syntax |-> <<"[", "[", "R", "e", "f", "e", "r", "e", "n", "c", "e", "]", "]">>] >>

tag_items ==
    << [label  |-> <<"t", "o", "d", "o">>,
        syntax |-> <<"#", "t", "o", "d", "o">>],
       [label  |-> <<"i", "m", "p", "o", "r", "t", "a", "n", "t">>,
        syntax |-> <<"#", "i", "m", "p", "o", "r", "t", "a", "n", "t">>],
       [label  |-> <<"i", "d", "e", "a">>,
        syntax |-> <<"#", "i", "d", "e", "a">>] >>

\* filter_text.lower() in item[0].lower()
FilterMatches(filter_text, label) ==
    \/ filter_text = <<>>
    \/ \E i \in 1..Len(label) :
           HasPrefixAt(LowerStr(label), i, LowerStr(filter_text))

\* show_syntax_popup(trigger, filter_text): the rows are the matching
\* items, the first row is current when there is one, and the popup is
\* shown whether or not it has rows.
ShowSyntaxPopup(trigger, filter_text) ==
    LET items    == CASE trigger = <<"/">>      -> syntax_items
                      [] trigger = <<"[", "[">> -> wikilink_items
                      [] trigger = <<"#">>      -> tag_items
                      [] OTHER                  -> <<>>
        match(it) == FilterMatches(filter_text, it.label)
        filtered == SelectSeq(items, match)
    IN  [visible |-> TRUE, trigger |-> trigger, filter |-> filter_text,
         filtered |-> filtered,
         row |-> IF filtered # <<>> THEN 0 ELSE -1,
         raised |-> FALSE]

\* The popup after an arrow key moved the current row by step: the
\* remainder of a division by count() raises ZeroDivisionError when the
\* popup has no rows.
MoveRow(pp, step) ==
    IF Len(pp.filtered) = 0 THEN [pp EXCEPT !.raised = TRUE]
    ELSE [pp EXCEPT !.row = (pp.row + step + Len(pp.filtered))
                               % Len(pp.filtered)]

\* insert_selected_syntax on the document d: the cursor takes the trigger
\* and the filter into its selection, as far as the document reaches, and
\* the syntax of the current row replaces the selection.
InsertSelectedSyntax(pp, d) ==
    IF pp.row < 0 THEN d
    ELSE LET length == Len(pp.trigger) + Len(pp.filter)
             from   == IF d.position > length THEN d.position - length ELSE 0
         IN  InsertText(Doc(d.text, d.position, from),
                        pp.filtered[pp.row + 1].syntax)

(***************************************************************************)
(* SpecPopup: key presses that reach the editor, each taken first by       *)
(* eventFilter and handle_editor_keypress and, when that returns False, by *)
(* keyPressEvent.  The keys are the arrows, Return, Escape and the keys    *)
(* with a text; the cursor has no selection.                               *)
(***************************************************************************)
MaxPopupKeys == 4

PopupTextKeys == {"/", "[", "h", "z"}

InitPopup ==
    /\ text = <<>>
    /\ anchor = 0
    /\ position = 0
    /\ before = NoKey
    /\ typed = 0
    /\ popup = NoPopup
    /\ formats = <<>>
    /\ last_io = NoIo
    /\ current_file = NoFile
    /\ preview = NoPreview
    /\ stage = "popup"
    /\ md_text = <<>>
    /\ mdx_changed = FALSE
    /\ md_text_mermaid = <<>>
    /\ timer_left = Inactive
    /\ version = 0
    /\ burst = 0
    /\ bursts = 0
    /\ passes = 0
    /\ last_pass = NoPass
    /\ armed_text = <<>>
    /\ quiet = 0

\* What every key press of the session does besides its own effect: the
\* handlers run until one raises.
PopupKey(key) ==
    /\ typed < MaxPopupKeys
    /\ ~popup.raised
    /\ typed' = typed + 1
    /\ before' = [text |-> text, anchor |-> anchor, position |-> position,
                  key |-> key, rule |-> "popup"]
    /\ UNCHANGED <<current_file, preview, stage, passVars, schedVars, hlVars,
                   ioVars>>

\* Key_Down and Key_Up while the popup is visible.
PopupArrow(key, step) ==
    /\ popup.visible
    /\ PopupKey(key)
    /\ popup' = MoveRow(popup, step)
    /\ UNCHANGED <<text, anchor, position>>

\* Key_Return while the popup is visible: insert_selected_syntax.
PopupReturn ==
    /\ popup.visible
    /\ PopupKey("Return")
    /\ LET d == InsertSelectedSyntax(popup, Doc(text, anchor, position))
       IN  /\ text' = d.text
           /\ anchor' = d.anchor
           /\ position' = d.position
    /\ popup' = [popup EXCEPT !.visible = FALSE]

\* Key_Escape while the popup is visible.
PopupEscape ==
    /\ popup.visible
    /\ PopupKey("Escape")
    /\ popup' = [popup EXCEPT !.visible = FALSE]
    /\ UNCHANGED <<text, anchor, position>>

\* A key with a text while the popup is visible: the text is added to the
\* filter and the popup is shown again; the editor does not get the key.
PopupFilter(c) ==
    /\ popup.visible
    /\ PopupKey(c)
    /\ popup' = ShowSyntaxPopup(popup.trigger, popup.filter \o <<c>>)
    /\ UNCHANGED <<text, anchor, position>>

\* A key with a text while the popup is hidden: '/' after nothing but
\* whitespace in its line, and '[' after two of them, show the popup; the
\* handler returns False and keyPressEvent inserts the key.
PopupTrigger(c) ==
    /\ ~popup.visible
    /\ PopupKey(c)
    /\ LET d == Doc(text, anchor, position)
           r == KeyPressEvent(d, c)
       IN  /\ popup' =
                 IF c = "/" /\ IsBlank(BlockTextBefore(d))
                 THEN ShowSyntaxPopup(<<"/">>, <<>>)
                 ELSE IF c = "[" /\ Len(BlockTextBefore(d)) >= 2
                         /\ PySlice(BlockTextBefore(d),
                                    Len(BlockTextBefore(d)) - 2,
                                    Len(BlockTextBefore(d))) = <<"[", "[">>
                 THEN ShowSyntaxPopup(<<"[", "[">>, <<>>)
                 ELSE popup
           /\ text' = r.text
           /\ anchor' = r.anchor
           /\ position' = r.position

NextPopup ==
    \/ PopupArrow("Down", 1)
    \/ PopupArrow("Up", -1)
    \/ PopupReturn
    \/ PopupEscape
    \/ \E c \in PopupTextKeys : PopupFilter(c)
    \/ \E c \in PopupTextKeys : PopupTrigger(c)

SpecPopup == InitPopup /\ [][NextPopup]_vars

(***************************************************************************)
(* The debounced preview scheduler.                                        *)
(***************************************************************************)
TimerActive == timer_left # Inactive

\* C1: starting from an inactive timer, N >= 1 document-change events that
\* each arrive before the timer armed by the one before times out cause
\* exactly one render pass, and that pass renders the buffer as it is after
\* the Nth event: the passes are the initial one and one for each burst that
\* is over, and once the timer's pass is done it covers every event so far
\* and the preview is the rendering of the present buffer.
C1_Coalescing ==
    stage = "running" =>
        /\ passes = 1 + bursts - (IF TimerActive THEN 1 ELSE 0)
        /\ (~TimerActive /\ last_pass.by = "timer") =>
              /\ last_pass.n >= 1
              /\ last_pass.version = version
              /\ last_pass.src = text
              /\ preview = DoUpdatePreview(text, last_pass.file)

\* One pass done for a burst of two events or more.
C1_Witness ==
    /\ stage = "running"
    /\ ~TimerActive
    /\ last_pass.by = "timer"
    /\ last_pass.n >= 2
    /\ passes = 2

\* C2: every render pass reads the buffer at the moment it runs, never a
\* snapshot taken when the timer was armed, so what it publishes is the
\* rendering of the most recent document state, and no pass publishes an
\* older state than the pass before it.
C2_ReadsAtFire ==
    [][passes' # passes =>
          /\ last_pass'.src = text
          /\ last_pass'.file = current_file
          /\ last_pass'.version = version
          /\ last_pass'.version >= last_pass.version
          /\ preview' = DoUpdatePreview(text, current_file)]_vars

\* A timer pass whose buffer is not the buffer the timer was armed with.
C2_Witness ==
    /\ last_pass.by = "timer"
    /\ last_pass.src # armed_text
    /\ last_pass.src = text
    /\ ~TimerActive

C4_ArmedIffMutated == TimerActive <=> burst >= 1

\* Armed again by a change after a timer pass.
C4_Witness ==
    /\ TimerActive
    /\ burst >= 1
    /\ last_pass.by = "timer"
    /\ last_pass.src # text

(***************************************************************************)
(* Vocabulary of the claims about the normalizer.                          *)
(***************************************************************************)
\* The lines of a text: the text cut at every "\n" (a text that ends with
\* "\n" has an empty last line).
RECURSIVE CutFrom(_, _, _)
CutFrom(s, i, start) ==
    IF i > Len(s) THEN <<Slice(s, start, Len(s))>>
    ELSE IF s[i] = "\n"
         THEN <<Slice(s, start, i - 1)>> \o CutFrom(s, i + 1, i + 1)
         ELSE CutFrom(s, i + 1, start)

TextLines(s) == CutFrom(s, 1, 1)

\* A line, taken alone, is an import/export line.
HasImportLine(t) ==
    \E i \in 1..Len(SplitLines(t)) : ImportLine(SplitLines(t)[i])

\* A line, taken alone, begins with a capitalized tag.
HasJsxLine(t) ==
    \E i \in 1..Len(SplitLines(t)) : TagOf(SplitLines(t)[i]) # <<>>

\* The path ends in .mdx, in either case.
PathEndsMdx(f) ==
    Len(f) >= 4 /\ LowerStr(SubSeq(f, Len(f) - 3, Len(f))) = ExtMdx

\* Line i is optional whitespace, import or export, and whitespace, where
\* the line break that ends the line counts as whitespace.
ImportLineNl(segs, i) ==
    LET line == segs[i]
        k    == SkipSpace(line, 1)
    IN  /\ HasPrefixAt(line, k, KwImport) \/ HasPrefixAt(line, k, KwExport)
        /\ IF k + 6 <= Len(line) THEN IsSpace(line[k + 6])
           ELSE i < Len(segs)

\* A capitalized identifier [A-Z][A-Za-z0-9_.-]* that ends at a word
\* boundary starts at position a of line.
CapIdentAt(line, a) ==
    /\ a <= Len(line)
    /\ line[a] \in Upper
    /\ \E e \in (a + 1)..SkipTagChars(line, a + 1) : WordBoundary(line, e)

\* The first character that is not whitespace at or after position p of
\* line i, line breaks passed over: <<line, position>>, <<0, 0>> if none.
RECURSIVE NextNonSpace(_, _, _)
NextNonSpace(segs, i, p) ==
    IF i > Len(segs) THEN <<0, 0>>
    ELSE LET q == SkipSpace(segs[i], p)
         IN  IF q <= Len(segs[i]) THEN <<i, q>>
             ELSE NextNonSpace(segs, i + 1, 1)

\* Line i is optional whitespace and '<', and the next character that is
\* not whitespace, on this line or a later one, starts a capitalized
\* identifier.
JsxLineNl(segs, i) ==
    LET line == segs[i]
        lt   == SkipSpace(line, 1)
    IN  /\ lt <= Len(line)
        /\ line[lt] = "<"
        /\ LET q == NextNonSpace(segs, i, lt + 1)
           IN  q # <<0, 0>> /\ CapIdentAt(segs[q[1]], q[2])

MdxLikeNl(t) ==
    \E i \in 1..Len(TextLines(t)) :
        ImportLineNl(TextLines(t), i) \/ JsxLineNl(TextLines(t), i)

\* The number of fence-marker lines of a text.
FenceCount(t) ==
    Cardinality({i \in 1..Len(SplitLines(t)) : FenceLine(SplitLines(t)[i])})

(***************************************************************************)
(* C5.  As claimed: for all text with no import/export line and no         *)
(* JSX-like line, _looks_like_mdx is false and _mdx_to_markdown returns    *)
(* the text unchanged with the flag false.  A path that ends in .mdx       *)
(* refutes it.                                                             *)
(***************************************************************************)
C5_Original ==
    (stage # "start" /\ ~HasImportLine(text) /\ ~HasJsxLine(text))
        => /\ ~LooksLikeMdx(text, current_file)
           /\ md_text = text
           /\ mdx_changed = FALSE

\* C5, amended: when the current file path does not end in .mdx and the
\* text has no import/export line and no JSX-like line, a line being taken
\* with the line break that ends it (which counts as whitespace),
\* _looks_like_mdx is false and _mdx_to_markdown returns the text unchanged
\* with the flag false.
C5_NoOpWithoutMdx ==
    (stage # "start" /\ ~PathEndsMdx(current_file) /\ ~MdxLikeNl(text))
        => /\ ~LooksLikeMdx(text, current_file)
           /\ md_text = text
           /\ mdx_changed = FALSE

\* A normalized text of two lines or more, with a path, that is not MDX.
C5_Witness ==
    /\ stage = "normalized"
    /\ ~PathEndsMdx(current_file) /\ current_file # NoFile
    /\ ~MdxLikeNl(text)
    /\ Len(TextLines(text)) >= 2
    /\ md_text = text

(***************************************************************************)
(* C6.  As claimed: for every input text the number of fence-marker lines  *)
(* of the output of _mdx_to_markdown is even.  A text with one fence       *)
(* marker refutes it.                                                      *)
(***************************************************************************)
C6_Original == stage # "start" => FenceCount(md_text) % 2 = 0

\* C6, amended: for every input text whose own fence-marker lines are
\* balanced (even in number), the fence-marker lines of the output are
\* balanced: every synthetic jsx fence is matched by a synthetic closing
\* fence.
C6_FencesBalanced ==
    (stage # "start" /\ FenceCount(text) % 2 = 0)
        => FenceCount(md_text) % 2 = 0

\* A component left open at the end of a text with balanced fences.
C6_Witness ==
    /\ stage = "normalized"
    /\ FenceCount(text) = 2
    /\ FenceCount(md_text) = 4
    /\ LET lines == SplitLines(text)
       IN  MdxFold(lines, Len(lines)).in_component # <<>>

(***************************************************************************)
(* C7.  As claimed: detection is true exactly when the path ends in .mdx,  *)
(* or some line matches ^\s*(import|export)\s, or some line begins with    *)
(* '<' and a capitalized identifier; when none holds the normalization     *)
(* returns the input unchanged with the flag false.  A bare 'import' line  *)
(* followed by a line break refutes it.                                    *)
(***************************************************************************)
C7_Original ==
    stage # "start" =>
        LET any == \/ PathEndsMdx(current_file)
                   \/ HasImportLine(text)
                   \/ HasJsxLine(text)
        IN  /\ LooksLikeMdx(text, current_file) <=> any
            /\ ~any => (md_text = text /\ mdx_changed = FALSE)

\* C7, amended: detection is true exactly when the path ends in .mdx (in
\* either case), or some line is optional whitespace, import or export, and
\* whitespace, or some line is optional whitespace, '<', optional
\* whitespace and a capitalized identifier that ends at a word boundary,
\* where in both patterns a line break counts as whitespace; when none
\* holds the normalization returns the input unchanged with the flag false.
C7_Detection ==
    stage # "start" =>
        LET any == PathEndsMdx(current_file) \/ MdxLikeNl(text)
        IN  /\ LooksLikeMdx(text, current_file) <=> any
            /\ ~any => (md_text = text /\ mdx_changed = FALSE)

\* Detected by an import keyword whose whitespace is the line break.
C7_Witness ==
    /\ stage = "normalized"
    /\ current_file = NoFile
    /\ LooksLikeMdx(text, current_file)
    /\ ~HasImportLine(text)
    /\ ~HasJsxLine(text)
    /\ \E i \in 1..Len(TextLines(text)) : ImportLineNl(TextLines(text), i)

(***************************************************************************)
(* C8.  Vocabulary: a line that begins with a capitalized tag, and the     *)
(* two readings of 'the tag self-closes or closes on the same line'.       *)
(***************************************************************************)
BeginsWithTag(line) ==
    LET lt == SkipSpace(line, 1)
    IN  /\ lt <= Len(line)
        /\ line[lt] = "<"
        /\ CapIdentAt(line, SkipSpace(line, lt + 1))

\* The identifier of a line that begins with a tag: the longest one that
\* ends at a word boundary.
TagName(line) ==
    LET a  == SkipSpace(line, SkipSpace(line, 1) + 1)
        es == {e \in (a + 1)..SkipTagChars(line, a + 1) : WordBoundary(line, e)}
    IN  SubSeq(line, a, (CHOOSE x \in es : \A y \in es : y <= x) - 1)

RECURSIVE RTrim(_)
RTrim(s) ==
    IF s # <<>> /\ IsSpace(s[Len(s)]) THEN RTrim(SubSeq(s, 1, Len(s) - 1))
    ELSE s

DropLast(s, n) == SubSeq(s, 1, Len(s) - n)

\* The line ends, trailing whitespace aside, with '/' and '>'.
EndsSelfClosed(line) ==
    LET t == RTrim(line)
    IN  /\ EndsWith(t, <<">">>)
        /\ EndsWith(RTrim(DropLast(t, 1)), <<"/">>)

\* The line ends, trailing whitespace aside, with the closing form of tag.
EndsWithClose(line, tag) ==
    LET t == RTrim(line)
    IN  /\ EndsWith(t, <<">">>)
        /\ LET u == RTrim(DropLast(t, 1))
           IN  /\ EndsWith(u, tag)
               /\ EndsWith(RTrim(DropLast(u, Len(tag))), <<"<", "/">>)

\* A self-closing '/>' or the closing form of tag, anywhere in the line.
ClosesSomewhere(line, tag) ==
    \E p \in 1..Len(line) :
        \/ HasPrefixAt(line, p, <<"/", ">">>)
        \/ HasPrefixAt(line, p, <<"<", "/">> \o tag \o <<">">>)

JsxOpen == Fence3 \o <<"j", "s", "x">>

\* What line n adds to the output, and the open component it leaves, when
\* the loop reaches it outside fences and outside an open component and it
\* begins with a capitalized tag: emitted is the line as put out, closed
\* whether the closing fence follows at once.
TagLineRule(n, emitted, closed) ==
    LET lines == SplitLines(text)
        st    == MdxFold(lines, n - 1)
        after == MdxFold(lines, n)
    IN  IF closed
        THEN /\ after.out_lines = st.out_lines \o <<JsxOpen, emitted, Fence3>>
             /\ after.in_component = <<>>
        ELSE /\ after.out_lines = st.out_lines \o <<JsxOpen, emitted>>
             /\ after.in_component = TagName(lines[n])

\* The lines the rule is about.
TagLines ==
    LET lines == SplitLines(text)
    IN  {n \in 1..Len(lines) :
            /\ ~MdxFold(lines, n - 1).in_fence
            /\ MdxFold(lines, n - 1).in_component = <<>>
            /\ BeginsWithTag(lines[n])}

ScenarioJsxOut == JsxOpen \o <<"\n">> \o FooTagLine \o <<"\n">> \o Fence3

(***************************************************************************)
(* C8.  As claimed: outside fences and outside an open component a line    *)
(* that begins with a capitalized tag puts out the jsx fence and the line  *)
(* itself, and the closing fence at once if the tag self-closes or closes  *)
(* on the same line, else leaves the component open.  A self-closing tag   *)
(* followed by text on its line refutes it.                                *)
(***************************************************************************)
C8_Original ==
    (stage # "start" /\ LooksLikeMdx(text, current_file)) =>
        \A n \in TagLines :
            LET line == SplitLines(text)[n]
            IN  TagLineRule(n, line, ClosesSomewhere(line, TagName(line)))

\* C8, amended: outside fences and outside an open component a line that
\* begins with a capitalized tag puts out the jsx fence and the line (any
\* {/* ... */} comment in it rewritten as for every line outside fences),
\* followed at once by the closing fence if the line put out ends, trailing
\* whitespace aside, with '/>' or with the tag's closing form, and else
\* leaves that component open for the following lines; the import line
\* followed by '<Foo prop="1" />' yields the import dropped and the tag
\* line wrapped in one opened-and-closed jsx fence.
C8_TagLineFenced ==
    /\ (stage # "start" /\ LooksLikeMdx(text, current_file)) =>
          \A n \in TagLines :
              LET line == RewriteComments(SplitLines(text)[n])
              IN  TagLineRule(n, line,
                      EndsSelfClosed(line)
                          \/ EndsWithClose(line, TagName(line)))
    /\ (stage # "start" /\ text = ScenarioJsx) => md_text = ScenarioJsxOut

\* The scenario, normalized.
C8_Witness ==
    /\ stage = "normalized"
    /\ text = ScenarioJsx
    /\ TagLines = {2}
    /\ md_text = ScenarioJsxOut
    /\ mdx_changed

(***************************************************************************)
(* C9.  The MDX banner is part of the published document if and only if    *)
(* the normalized text differs from the buffer text, which is when the     *)
(* flag is true; detection alone does not show it.                         *)
(***************************************************************************)
C9_BannerIffChanged ==
    stage = "published" =>
        /\ preview.mdx_note <=> (md_text # text)
        /\ mdx_changed <=> (md_text # text)

\* Published: detected as MDX by the path, nothing changed, no banner.
C9_Witness ==
    /\ stage = "published"
    /\ LooksLikeMdx(text, current_file)
    /\ text # <<>>
    /\ md_text = text
    /\ ~preview.mdx_note

(***************************************************************************)
(* C10.  Vocabulary: the mermaid blocks of a text read line by line.  A    *)
(* block opens at a line that is exactly the mermaid fence and closes at   *)
(* the next line that begins with three backquotes; the rest of that line  *)
(* stays.  nl: whether the line break before the closing fence belongs to  *)
(* the container's inner text.                                             *)
(***************************************************************************)
\* The first line at or after j that begins with three backquotes, 0 if none.
RECURSIVE ClosingFence(_, _)
ClosingFence(segs, j) ==
    IF j > Len(segs) THEN 0
    ELSE IF HasPrefixAt(segs[j], 1, Fence3) THEN j
    ELSE ClosingFence(segs, j + 1)

\* Lines a..b, each followed by its line break.
RECURSIVE LinesWithBreaks(_, _, _)
LinesWithBreaks(segs, a, b) ==
    IF a > b THEN <<>>
    ELSE segs[a] \o <<"\n">> \o LinesWithBreaks(segs, a + 1, b)

RECURSIVE BlocksFrom(_, _, _)
BlocksFrom(segs, i, nl) ==
    IF i > Len(segs) THEN <<>>
    ELSE LET j   == IF segs[i] = Fence3 \o KwMermaid
                    THEN ClosingFence(segs, i + 1) ELSE 0
             brk == IF i < Len(segs) THEN <<"\n">> ELSE <<>>
         IN  IF j = 0 THEN segs[i] \o brk \o BlocksFrom(segs, i + 1, nl)
             ELSE LET inner == LinesWithBreaks(segs, i + 1, j - 1)
                      end   == IF j < Len(segs) THEN <<"\n">> ELSE <<>>
                  IN  <<DivOpen>>
                        \o (IF nl \/ inner = <<>> THEN inner
                            ELSE DropLast(inner, 1))
                        \o <<DivClose>>
                        \o Slice(segs[j], 4, Len(segs[j])) \o end
                        \o BlocksFrom(segs, j + 1, nl)

(***************************************************************************)
(* C10.  As claimed: every fenced block tagged mermaid is replaced by one  *)
(* container whose inner text is exactly the block's inner content; for    *)
(* the scenario's block it is 'graph TD\n  A --> B'.  The scenario         *)
(* refutes it: the code keeps the line break before the closing fence.     *)
(***************************************************************************)
C10_Original ==
    stage = "published" =>
        /\ md_text_mermaid = BlocksFrom(TextLines(md_text), 1, FALSE)
        /\ md_text = ScenarioMermaid =>
              md_text_mermaid = <<DivOpen>> \o GraphSource \o <<DivClose>>

\* C10, amended: every fenced block whose opening line is exactly the
\* mermaid fence, closed by the next line that begins with three
\* backquotes, is replaced by one diagram-container element whose inner
\* text is the block's inner lines, each followed by its line break; for
\* the scenario's block the inner text is 'graph TD\n  A --> B\n'.
C10_MermaidContainer ==
    stage = "published" =>
        /\ md_text_mermaid = BlocksFrom(TextLines(md_text), 1, TRUE)
        /\ md_text = ScenarioMermaid =>
              md_text_mermaid =
                  <<DivOpen>> \o GraphSource \o <<"\n", DivClose>>

\* The scenario, published.
C10_Witness ==
    /\ stage = "published"
    /\ text = ScenarioMermaid
    /\ md_text_mermaid = <<DivOpen>> \o GraphSource \o <<"\n", DivClose>>
(***************************************************************************)
(* C11.  Vocabulary: the fenced blocks of a text read line by line.  A     *)
(* block opens at a line that begins with a run of three backquotes or     *)
(* more, the rest of the line being its language tag, and closes at the    *)
(* next line that is a run of at least as many backquotes and whitespace.  *)
(***************************************************************************)
RECURSIVE RunLen(_, _)
RunLen(line, i) ==
    IF i <= Len(line) /\ line[i] = Backquote THEN 1 + RunLen(line, i + 1)
    ELSE 0

\* The first line at or after j that closes a block opened by n backquotes,
\* 0 if none.
RECURSIVE BlockCloser(_, _, _)
BlockCloser(lines, j, n) ==
    IF j > Len(lines) THEN 0
    ELSE LET r == RunLen(lines[j], 1)
         IN  IF r >= n /\ IsBlank(Slice(lines[j], r + 1, Len(lines[j])))
             THEN j
             ELSE BlockCloser(lines, j + 1, n)

\* The closed blocks from line i on whose tag is not mermaid: pairs of the
\* opening and the closing line.
RECURSIVE NonMermaidBlocks(_, _)
NonMermaidBlocks(lines, i) ==
    IF i > Len(lines) THEN {}
    ELSE LET n == RunLen(lines[i], 1)
             j == IF n >= 3 THEN BlockCloser(lines, i + 1, n) ELSE 0
         IN  IF n < 3 THEN NonMermaidBlocks(lines, i + 1)
             ELSE IF j = 0 THEN {}
             ELSE (IF Slice(lines[i], n + 1, Len(lines[i])) = KwMermaid
                   THEN {} ELSE {<<i, j>>})
                    \cup NonMermaidBlocks(lines, j + 1)

IsInfix(p, s) == \E k \in 1..(Len(s) + 1) : p = <<>> \/ HasPrefixAt(s, k, p)

\* C11: mermaid extraction leaves every non-mermaid fenced block untouched:
\* the opening marker, every inner line (also one that looks like a mermaid
\* fence) and the closing marker of a fenced block whose tag is not mermaid
\* stand in the output as in the input.
C11_NonMermaidUntouched ==
    stage = "published" =>
        LET lines == TextLines(md_text)
        IN  \A blk \in NonMermaidBlocks(lines, 1) :
                IsInfix(JoinLines(SubSeq(lines, blk[1], blk[2])),
                        md_text_mermaid)

(***************************************************************************)
(* C12.  Mermaid extraction is idempotent: applied to its own output it    *)
(* returns that output unchanged.                                          *)
(***************************************************************************)
C12_ExtractIdempotent ==
    stage = "published" => ExtractMermaid(md_text_mermaid) = md_text_mermaid

\* Two diagrams extracted.
C12_Witness ==
    /\ stage = "published"
    /\ md_text = ScenarioTwoDiagrams
    /\ md_text_mermaid =
          <<DivOpen, "A", "\n", DivClose, "\n", DivOpen, "B", "\n", DivClose>>

(***************************************************************************)
(* C13.  As claimed: whenever the text after normalization and mermaid     *)
(* extraction is blank, the published document is the one fixed welcome    *)
(* document, the same for every buffer and path.  A buffer that is one     *)
(* import line refutes it: the banner stands before the welcome section.   *)
(***************************************************************************)
C13_Original ==
    (stage = "published" /\ IsBlank(md_text_mermaid))
        => preview = HtmlFull(FALSE, WelcomeHtml)

\* C13, amended: whenever the text after normalization and mermaid
\* extraction is blank or whitespace-only, the Markdown renderer is not
\* invoked and the published body is the fixed welcome section, the same
\* for every such buffer and path; the MDX banner stands before it exactly
\* when normalization changed the buffer.  A text that is not blank is
\* rendered.
C13_WelcomeWhenBlank ==
    stage = "published" =>
        /\ IsBlank(md_text_mermaid) =>
              /\ preview.html = WelcomeHtml
              /\ preview.mdx_note <=> (md_text # text)
        /\ ~IsBlank(md_text_mermaid) =>
              preview.html = Markdown(md_text_mermaid)

\* A whitespace-only buffer, published with the banner.
C13_Witness ==
    /\ stage = "published"
    /\ text # <<>>
    /\ IsBlank(md_text_mermaid)
    /\ md_text_mermaid # <<>>
    /\ preview = HtmlFull(TRUE, WelcomeHtml)
(***************************************************************************)
(* Vocabulary of the claims about the keys: the buffer around the cursor   *)
(* as it was when the key arrived, read by positions as Qt counts them.    *)
(***************************************************************************)
KeyTyped(key) == typed >= 1 /\ before.key = key

HadSelection == before.anchor # before.position

\* The buffer before the selection (or the cursor), the selected text, and
\* the buffer after it.
LeftOf == QtSlice(before.text, 0, SelStart(before))

Selected == QtSlice(before.text, SelStart(before), SelEnd(before))

RightOf == QtSlice(before.text, SelEnd(before), QtLen(before.text))

\* The character before, and the character after, the cursor.
CharBefore == QtSlice(before.text, 0, before.position)

CharAfter == QtSlice(before.text, before.position, QtLen(before.text))

PrevIs(c) == CharBefore # <<>> /\ CharBefore[Len(CharBefore)] = c

NextIs(c) == CharAfter # <<>> /\ CharAfter[1] = c

\* The content of the cursor's line before the cursor is blank; half a
\* character before a cursor that stands inside one is not.
LineBlankBefore ==
    LET k == Len(CharBefore)
    IN  /\ QtLen(CharBefore) = before.position
        /\ IsBlank(Slice(before.text, LineStart(before.text, k) + 1, k))

\* The cursor stands, without a selection, n positions after the end of
\* LeftOf.
CursorAfterLeft(n) ==
    /\ anchor = position
    /\ position = QtLen(LeftOf) + n

\* C14: with an empty selection and the character after the cursor not
\* ')', typing '(' inserts '()' and leaves the cursor between the two; with
\* an empty selection and ')' right after the cursor, typing '(' inserts
\* only '('.
C14_AutoPairParen ==
    (KeyTyped("(") /\ ~HadSelection) =>
        /\ CursorAfterLeft(1)
        /\ text = LeftOf \o (IF NextIs(")") THEN <<"(">> ELSE <<"(", ")">>)
                    \o RightOf

\* C15: typing a pairable character while a selection exists replaces the
\* selection by opener, selected text and closer, and the selection then
\* covers exactly the text that was selected.
C15_WrapKeepsSelection ==
    (typed >= 1 /\ before.key \in DOMAIN pairs /\ HadSelection
        /\ before.rule = "wrap") =>
        /\ text = LeftOf \o <<before.key>> \o Selected
                    \o <<pairs[before.key]>> \o RightOf
        /\ SelStart(Doc(text, anchor, position)) = QtLen(LeftOf) + 1
        /\ SelEnd(Doc(text, anchor, position))
              = QtLen(LeftOf) + 1 + QtLen(Selected)

\* C16: typing '$' when the character before the cursor is '$' and a
\* selection exists removes that one '$' and puts '$$', the selected text
\* and '$$' in the place of the selection: the selected text stands inside
\* the math span.
C16_MathWrapsSelection ==
    (KeyTyped("$") /\ HadSelection /\ PrevIs("$")) =>
        /\ IsInfix(<<"$", "$">> \o Selected \o <<"$", "$">>, text)
        /\ Len(text) = Len(before.text) - 1 + 4

\* C17: typing '$' with no selection when the character before the cursor
\* is '$' removes that '$', inserts '$$  $$' in its place and leaves the
\* cursor between the two spaces.
C17_EmptyMathSpan ==
    (KeyTyped("$") /\ ~HadSelection /\ PrevIs("$")) =>
        /\ text = DropLast(LeftOf, 1) \o <<"$", "$", " ", " ", "$", "$">>
                    \o RightOf
        /\ anchor = position
        /\ position = QtLen(LeftOf) - 1 + 3

\* C18: a backquote typed when the content of the line before the cursor
\* is blank is handled by the fenced-block rule, never by the pairing: a
\* selection is wrapped as a fenced mermaid block; with no selection an
\* empty fenced mermaid block is inserted and the cursor ends on its blank
\* inner line.
C18_BackquoteAtLineStart ==
    (KeyTyped(Backquote) /\ LineBlankBefore) =>
        /\ before.rule = "mermaid"
        /\ text = LeftOf \o Fence3 \o KwMermaid \o <<"\n">> \o Selected
                    \o <<"\n">> \o Fence3 \o RightOf
        /\ ~HadSelection => CursorAfterLeft(Len(Fence3 \o KwMermaid) + 1)

\* An empty block put after the blanks of a second line.
C18_Witness ==
    /\ KeyTyped(Backquote)
    /\ typed = 1
    /\ before.text = <<"\n", " ">>
    /\ before.anchor = 2 /\ before.position = 2
    /\ text = <<"\n", " ">> \o Fence3 \o KwMermaid \o <<"\n", "\n">> \o Fence3
    /\ position = 13
(***************************************************************************)
(* The highlighter.                                                        *)
(***************************************************************************)
\* The rules with a match that covers character c of the line s.
Covering(s, c) ==
    { r \in 1..Len(Rules) :
        \E k \in 1..Len(FindIter(Rules[r].pat, s, 1)) :
            LET m == FindIter(Rules[r].pat, s, 1)[k]
            IN  m[1] <= c /\ c < m[2] }

\* The style of the last-listed rule with a match that covers character c.
LastStyle(s, c) ==
    IF Covering(s, c) = {} THEN "none"
    ELSE Rules[CHOOSE r \in Covering(s, c) :
                   \A o \in Covering(s, c) : o <= r].style

\* The positions of the block that character c of the line s occupies.
UnitsOf(s, c) == (QtLen(SubSeq(s, 1, c - 1)) + 1)..QtLen(SubSeq(s, 1, c))

\* C19: the final style of every character of a highlighted line is the
\* style of the last-listed rule having a match that covers it, and no style
\* when no rule has one; so the link inside a bolded link has the style of
\* links.
C19_LastRuleWins ==
    stage = "highlight" =>
        \A c \in 1..Len(text) : \A q \in UnitsOf(text, c) :
            formats[q] = LastStyle(text, c)

(***************************************************************************)
(* File operations.                                                        *)
(***************************************************************************)
\* C20: a step in which a file read or a file write fails shows its error
\* and leaves the buffer text and the current file path as they were.
C20_FailureReportedUnchanged ==
    [][(last_io' # last_io /\ last_io'.failed)
         => /\ last_io'.reported
            /\ text' = text
            /\ current_file' = current_file]_vars

(***************************************************************************)
(* The scheduler as a machine of two states: Idle, the timer inactive, and *)
(* PendingRender, the timer running.                                       *)
(***************************************************************************)
Idle == stage = "running" /\ ~TimerActive
PendingRender == stage = "running" /\ TimerActive

\* C21: a document-change event, in Idle as in PendingRender, leaves the
\* scheduler in PendingRender with the timer at its full interval and runs
\* no render pass; and the timer's render pass runs only when a full
\* interval has passed since the latest document-change event.
C21_FullIntervalOfQuiet ==
    [][/\ version' # version =>
             /\ PendingRender'
             /\ timer_left' = PreviewInterval
             /\ passes' = passes
       /\ (passes' # passes /\ last_pass'.by = "timer") =>
             /\ PendingRender
             /\ quiet >= PreviewInterval
             /\ Idle']_vars

\* The timer's pass has run for a burst whose later event came while the
\* timer was running and some of its interval had passed.
C21_Witness ==
    /\ Idle
    /\ last_pass.by = "timer"
    /\ last_pass.n >= 2
    /\ quiet = PreviewInterval
    /\ version = MaxEdits

(***************************************************************************)
(* The normalizer, line by line.                                           *)
(***************************************************************************)
\* The state of the loop when it reaches line k of the buffer, and when it
\* has processed it.
LoopBefore(k) == MdxFold(SplitLines(text), k - 1)
LoopAfter(k) == MdxFold(SplitLines(text), k)

\* The lines the loop reaches while it tracks an open component.
OpenLines ==
    {k \in 1..Len(SplitLines(text)) : LoopBefore(k).in_component # <<>>}

\* The lines the loop reaches between fence-marker lines.
FencedLines ==
    {k \in 1..Len(SplitLines(text)) :
        LoopBefore(k).in_fence /\ ~FenceLine(SplitLines(text)[k])}

\* The normalizer has run on a buffer it takes for MDX.
Normalized == stage # "start" /\ LooksLikeMdx(text, current_file)

\* The lines of the normalized text.
OutLines == TextLines(md_text)

\* Line k of the buffer is the next line of the output when the loop
\* reaches it.
PutOutVerbatim(k) ==
    LET at == Len(LoopBefore(k).out_lines) + 1
    IN  /\ at <= Len(OutLines)
        /\ OutLines[at] = SplitLines(text)[k]

\* C22: every line the loop reaches while it tracks an open component is
\* put out as it is, import and export lines and comment syntax included.
C22_OpenComponentVerbatim ==
    Normalized => \A k \in OpenLines : PutOutVerbatim(k)

\* The closing form of tag occurs somewhere in the line.
ContainsClosingForm(line, tag) ==
    \E p \in 1..Len(line) : HasPrefixAt(line, p, <<"<", "/">> \o tag \o <<">">>)

\* Line k is put out, the closing fence right after it, and no component
\* is open any more.
ClosedAfter(k) ==
    LET at == Len(LoopBefore(k).out_lines) + 1
    IN  /\ Len(LoopAfter(k).out_lines) = at + 1
        /\ at + 1 <= Len(OutLines)
        /\ OutLines[at + 1] = Fence3
        /\ LoopAfter(k).in_component = <<>>

\* C23: while a component is open for tag T, a line in which the closing
\* form of T occurs, wherever in the line, is followed at once by a closing
\* fence and ends the open component.
C23_ClosingFormCloses ==
    Normalized =>
        \A k \in OpenLines :
            ContainsClosingForm(SplitLines(text)[k], LoopBefore(k).in_component)
                => ClosedAfter(k)

\* The line is optional whitespace, import or export, and a whitespace
\* character, whatever follows.
StartsImport(line) ==
    \E k \in 1..(Len(line) - 6) :
        /\ \A j \in 1..(k - 1) : IsSpace(line[j])
        /\ \/ SubSeq(line, k, k + 5) = <<"i", "m", "p", "o", "r", "t">>
           \/ SubSeq(line, k, k + 5) = <<"e", "x", "p", "o", "r", "t">>
        /\ IsSpace(line[k + 6])

\* The import and export lines the loop reaches outside fences.
ImportsOutside ==
    {k \in 1..Len(SplitLines(text)) :
        ~LoopBefore(k).in_fence /\ StartsImport(SplitLines(text)[k])}

\* Line k adds nothing to the output.
Dropped(k) ==
    /\ LoopAfter(k).out_lines = LoopBefore(k).out_lines
    /\ Len(OutLines) >= Len(LoopBefore(k).out_lines)

\* C24: every line between fence-marker lines is put out as it is, be it
\* an import or export line, comment syntax or a line that begins with a
\* capitalized tag; every import or export line outside fences is left out
\* of the output.  A buffer that is not taken for MDX has no import or
\* export line and is put out whole.
C24_ScopedByFences ==
    stage # "start" =>
        IF LooksLikeMdx(text, current_file)
        THEN /\ \A k \in FencedLines : PutOutVerbatim(k)
             /\ \A k \in ImportsOutside : Dropped(k)
        ELSE /\ md_text = text
             /\ ImportsOutside = {}

\* An import line outside fences is dropped and the same line inside a
\* fence is kept.
C24_Witness ==
    /\ stage = "normalized"
    /\ text = KwImport \o <<" ", "a", "\n">> \o Fence3 \o <<"\n">>
                \o KwImport \o <<" ", "a">>
    /\ ImportsOutside = {1}
    /\ FencedLines = {3}
    /\ md_text = Fence3 \o <<"\n">> \o KwImport \o <<" ", "a">>

\* The state of the loop after the last line of the buffer.
LoopEnd == LoopAfter(Len(SplitLines(text)))

\* C25: when a component is still open after the last line, the normalized
\* text is the output of the loop and one closing fence as its last line;
\* when none is open it is the output of the loop and nothing more.
C25_ForceClose ==
    Normalized =>
        IF LoopEnd.in_component # <<>>
        THEN md_text = JoinLines(LoopEnd.out_lines) \o <<"\n">> \o Fence3
        ELSE md_text = JoinLines(LoopEnd.out_lines)

\* A component opened on the first line and never closed.
C25_Witness ==
    /\ stage = "normalized"
    /\ text = <<"<", "A", ">", "\n", "A">>
    /\ LoopEnd.in_component = <<"A">>
    /\ md_text = JsxOpen \o <<"\n", "<", "A", ">", "\n", "A", "\n">> \o Fence3

(***************************************************************************)
(* The preview and the file path.                                          *)
(***************************************************************************)
\* C26: whenever the scheduler is Idle the published preview is the
\* rendering of the present buffer under the present file path, whatever
\* edits and file operations came before.
C26_IdlePreviewFresh ==
    Idle => preview = DoUpdatePreview(text, current_file)

(***************************************************************************)
(* The normalizer applied to its own output.                               *)
(***************************************************************************)
\* C27: _mdx_to_markdown applied to the normalized text, under the same
\* file path, returns it unchanged.
C27_NormalizeIdempotent ==
    stage # "start" => MdxToMarkdown(md_text, current_file)[1] = md_text

(***************************************************************************)
(* A run of opening parentheses.                                           *)
(***************************************************************************)
\* The buffer after j '(' keystrokes into the empty buffer, as claimed:
\* j opening parentheses and one closing parenthesis; the empty buffer for
\* j = 0.
ParenRun(j) ==
    IF j = 0 THEN <<>> ELSE [i \in 1..(j + 1) |-> IF i <= j THEN "(" ELSE ")"]

\* C28: a '(' typed into the empty buffer, or into the buffer that j >= 1
\* such keystrokes have left with the cursor before its ')', yields j + 1
\* opening parentheses and one ')' with the cursor before the ')': the first
\* keystroke inserts the pair, every later one is passed on.
C28_ParenRun ==
    \A j \in 0..MaxKeys :
        (/\ KeyTyped("(")
         /\ before.text = ParenRun(j)
         /\ before.anchor = j
         /\ before.position = j)
            => /\ text = ParenRun(j + 1)
               /\ anchor = j + 1
               /\ position = j + 1
               /\ before.rule = IF j = 0 THEN "pair" ELSE "super"

\* Two keystrokes into the empty buffer.
C28_Witness ==
    /\ typed = 2
    /\ KeyTyped("(")
    /\ before.text = ParenRun(1)
    /\ before.position = 1
    /\ before.rule = "super"
    /\ text = ParenRun(2)
    /\ position = 2

=============================================================================
